---- MODULE Spec2Model ----
(***************************************************************************)
(* SSD1306 display driver (src/ssd1306.h): the 1024-byte framebuffer, the  *)
(* pixel, glyph and string primitives, and the bus transactions issued by  *)
(* ssd1306_init and ssd1306_update.                                        *)
(***************************************************************************)
EXTENDS Integers, Sequences, FiniteSets, TLC

\* ---------------------------------------------------------------- bounds

\* Number of driver calls in one run.
MaxOps == 2

\* Width in bits of the C type int in the model. The target's int has 32
\* bits; the model checker's own integers have 32 bits too, so sums that
\* leave the range of int are modelled at a narrower width.
IntBits == 16

\* ------------------------------------------------------ program constants

SSD1306_I2C_ADDR == 60
SSD1306_WIDTH == 128
SSD1306_HEIGHT == 64

\* sizeof(buffer): SSD1306_WIDTH * SSD1306_HEIGHT / 8 bytes.
BufferSize == (SSD1306_WIDTH * SSD1306_HEIGHT) \div 8

\* Range of the C type int.
INT_MAX == (2 ^ (IntBits - 1)) - 1
INT_MIN == (-INT_MAX) - 1

\* font5x7[][5]: one row of 5 column bytes per glyph, row r + 1 here is
\* font5x7[r] in the source (TLA+ sequences start at 1).
font5x7 == <<
    <<  0,   0,   0,   0,   0>>,
    <<  0,   0,  95,   0,   0>>,
    <<  0,   7,   0,   7,   0>>,
    << 20, 127,  20, 127,  20>>,
    << 36,  42, 127,  42,  18>>,
    << 35,  19,   8, 100,  98>>,
    << 54,  73,  85,  34,  80>>,
    <<  0,   5,   3,   0,   0>>,
    <<  0,  28,  34,  65,   0>>,
    <<  0,  65,  34,  28,   0>>,
    << 20,   8,  62,   8,  20>>,
    <<  8,   8,  62,   8,   8>>,
    <<  0,  80,  48,   0,   0>>,
    <<  8,   8,   8,   8,   8>>,
    <<  0,  96,  96,   0,   0>>,
    << 32,  16,   8,   4,   2>>,
    << 62,  81,  73,  69,  62>>,
    <<  0,  66, 127,  64,   0>>,
    <<114,  73,  73,  73,  70>>,
    << 33,  65,  73,  77,  51>>,
    << 24,  20,  18, 127,  16>>,
    << 39,  69,  69,  69,  57>>,
    << 60,  74,  73,  73,  49>>,
    << 65,  33,  17,   9,   7>>,
    << 54,  73,  73,  73,  54>>,
    << 70,  73,  73,  41,  30>>,
    <<  0,  54,  54,   0,   0>>,
    <<  0,  86,  54,   0,   0>>,
    <<  8,  20,  34,  65,   0>>,
    << 20,  20,  20,  20,  20>>,
    <<  0,  65,  34,  20,   8>>,
    <<  2,   1,  89,   9,   6>>,
    << 62,  65,  93,  89,  78>>,
    <<124,  18,  17,  18, 124>>,
    <<127,  73,  73,  73,  54>>,
    << 62,  65,  65,  65,  34>>,
    <<127,  65,  65,  34,  28>>,
    <<127,  73,  73,  73,  65>>,
    <<127,   9,   9,   9,   1>>,
    << 62,  65,  73,  73, 122>>,
    <<127,   8,   8,   8, 127>>,
    <<  0,  65, 127,  65,   0>>,
    << 32,  64,  65,  63,   1>>,
    <<127,   8,  20,  34,  65>>,
    <<127,  64,  64,  64,  64>>,
    <<127,   2,  12,   2, 127>>,
    <<127,   4,   8,  16, 127>>,
    << 62,  65,  65,  65,  62>>,
    <<127,   9,   9,   9,   6>>,
    << 62,  65,  81,  33,  94>>,
    <<127,   9,  25,  41,  70>>,
    << 70,  73,  73,  73,  49>>,
    <<  1,   1, 127,   1,   1>>,
    << 63,  64,  64,  64,  63>>,
    << 31,  32,  64,  32,  31>>,
    << 63,  64,  56,  64,  63>>,
    << 99,  20,   8,  20,  99>>,
    <<  7,   8, 112,   8,   7>>,
    << 97,  81,  73,  69,  67>>,
    <<  0, 127,  65,  65,   0>>,
    <<  2,   4,   8,  16,  32>>,
    <<  0,  65,  65, 127,   0>>,
    <<  4,   2,   1,   2,   4>>,
    << 64,  64,  64,  64,  64>>,
    <<  0,   1,   2,   4,   0>>,
    << 32,  84,  84,  84, 120>>,
    <<127,  72,  68,  68,  56>>,
    << 56,  68,  68,  68,  32>>,
    << 56,  68,  68,  72, 127>>,
    << 56,  84,  84,  84,  24>>,
    <<  8, 126,   9,   1,   2>>,
    << 12,  82,  82,  82,  62>>,
    <<127,   8,   4,   4, 120>>,
    <<  0,  68, 125,  64,   0>>,
    << 32,  64,  68,  61,   0>>,
    <<127,  16,  40,  68,   0>>,
    <<  0,  65, 127,  64,   0>>,
    <<124,   4,  24,   4, 120>>,
    <<124,   8,   4,   4, 120>>,
    << 56,  68,  68,  68,  56>>,
    <<124,  20,  20,  20,   8>>,
    <<  8,  20,  20,  24, 124>>,
    <<124,   8,   4,   4,   8>>,
    << 72,  84,  84,  84,  32>>,
    <<  4,  63,  68,  64,  32>>,
    << 60,  64,  64,  32, 124>>,
    << 28,  32,  64,  32,  28>>,
    << 60,  64,  48,  64,  60>>,
    << 68,  40,  16,  40,  68>>,
    << 12,  80,  80,  80,  60>>,
    << 68, 100,  84,  76,  68>>,
    <<  0,   8,  54,  65,   0>>,
    <<  0,   0, 127,   0,   0>>,
    <<  0,  65,  54,   8,   0>>,
    <<  8,   8,  42,  28,   8>>,
    <<  8,  28,  42,   8,   8>>
>>

\* font5x7[row][col] with the source's 0-based indices.
FontByte(row, col) == font5x7[row + 1][col + 1]

\* The rows of font5x7: the array is declared without its first dimension
\* and takes it from its initialiser.
FontRows == 0 .. Len(font5x7) - 1

\* ------------------------------------------------------- 8-bit arithmetic

\* Bit k of v (v >= 0), as read back from a framebuffer or glyph byte.
Bit(v, k) == (v \div (2 ^ k)) % 2

\* a | b and a & b for 4-bit a and b, bit by bit.
Or4 ==
    [a \in 0 .. 15 |-> [b \in 0 .. 15 |->
        (IF a % 2 = 1 \/ b % 2 = 1 THEN 1 ELSE 0)
      + (IF (a \div 2) % 2 = 1 \/ (b \div 2) % 2 = 1 THEN 2 ELSE 0)
      + (IF (a \div 4) % 2 = 1 \/ (b \div 4) % 2 = 1 THEN 4 ELSE 0)
      + (IF (a \div 8) % 2 = 1 \/ (b \div 8) % 2 = 1 THEN 8 ELSE 0)]]

And4 ==
    [a \in 0 .. 15 |-> [b \in 0 .. 15 |->
        (IF a % 2 = 1 /\ b % 2 = 1 THEN 1 ELSE 0)
      + (IF (a \div 2) % 2 = 1 /\ (b \div 2) % 2 = 1 THEN 2 ELSE 0)
      + (IF (a \div 4) % 2 = 1 /\ (b \div 4) % 2 = 1 THEN 4 ELSE 0)
      + (IF (a \div 8) % 2 = 1 /\ (b \div 8) % 2 = 1 THEN 8 ELSE 0)]]

\* a | b and a & b on the low 8 bits (the result is stored in a uint8_t):
\* the low and the high four bits.
Or8(a, b) == Or4[a % 16][b % 16] + 16 * Or4[(a \div 16) % 16][(b \div 16) % 16]
And8(a, b) == And4[a % 16][b % 16] + 16 * And4[(a \div 16) % 16][(b \div 16) % 16]

\* Low 8 bits of ~v for 0 <= v <= 255.
Not8(v) == 255 - v

\* 1 << k.
Shl1(k) == 2 ^ k

\* ------------------------------------------------------------ C int sums

\* a + b in int. When the sum leaves the range of int the behaviour is
\* undefined; the build either wraps (the ARM add instruction) or carries on
\* with the exact sum (comparisons folded under the no-overflow assumption).
\* ovf selects which.
IntAdd(a, b, ovf) ==
    LET s == a + b IN
    IF s >= INT_MIN /\ s <= INT_MAX THEN s
    ELSE IF ovf = "wrap" THEN ((s - INT_MIN) % (2 ^ IntBits)) + INT_MIN
    ELSE s

\* ------------------------------------------------------------ framebuffer

\* static uint8_t buffer[SSD1306_WIDTH * SSD1306_HEIGHT / 8], zeroed at start.
ZeroBuffer == [k \in 0 .. BufferSize - 1 |-> 0]

\* What a driver function works on: the framebuffer, the bus log (the
\* transactions and delays issued so far, in order), the set of framebuffer
\* indices the call has read or written so far, and the bus as the call
\* meets it: n counts the call's transactions, fail is the position of the
\* one the device does not acknowledge (0: every one is acknowledged), ack
\* tells whether the latest i2c_write_blocking returned a byte count rather
\* than PICO_ERROR_GENERIC, and err is what the driver function hands back
\* to its caller. font holds the <<row, column>> indices at which the call
\* has read font5x7, and stray is the byte a read outside the table yields.
World(buf, log) ==
    [buffer |-> buf, bus |-> log, touched |-> {},
     n |-> 0, fail |-> 0, ack |-> TRUE, err |-> "none",
     font |-> {}, stray |-> 0]

\* The same with st as the byte that a read outside font5x7 yields.
StrayWorld(buf, log, st) == [World(buf, log) EXCEPT !.stray = st]

\* The same with the f-th transaction of the call left unacknowledged.
FaultyWorld(buf, log, f) == [World(buf, log) EXCEPT !.fail = f]

\* Statements run one after the other: what one statement leaves is computed
\* in full before the next statement runs (always TRUE; it fixes the order of
\* evaluation, so that a loop is evaluated iteration by iteration).
Computed(m) ==
    DOMAIN m = {"buffer", "bus", "touched", "n", "fail", "ack", "err",
                "font", "stray"}

\* The bounds test without the test of the right edge.
OutOfBounds_NoRight(x, y) ==
    x < 0 \/ y < 0 \/ y >= SSD1306_HEIGHT

\* The bounds test with > written for >=.
OutOfBounds_Inclusive(x, y) ==
    x < 0 \/ x > SSD1306_WIDTH \/ y < 0 \/ y > SSD1306_HEIGHT

\* The bounds test without its two lower bounds.
OutOfBounds_NoLower(x, y) ==
    x >= SSD1306_WIDTH \/ y >= SSD1306_HEIGHT

\* The bounds test of ssd1306_draw_pixel: TRUE when (x, y) is rejected.
OutOfBounds(x, y) ==
    x < 0 \/ x >= SSD1306_WIDTH \/ y < 0 \/ y >= SSD1306_HEIGHT

\* The byte index with the page stride taken from the height.
PixelIndex_WrongWidth(x, y) == x + (y \div 8) * SSD1306_HEIGHT

\* x + (y / 8) * SSD1306_WIDTH, for an accepted (x, y).
PixelIndex(x, y) == x + (y \div 8) * SSD1306_WIDTH

\* The bit number taken from the page.
PixelBit_Page(x, y) == y \div 8

\* y % 8, for an accepted (x, y).
PixelBit(x, y) == y % 8

\* buffer[idx] = v and buffer[idx], recording the access. An access outside
\* the array is recorded too (it changes no byte of the framebuffer itself).
Store(m, idx, v) ==
    [m EXCEPT !.buffer = IF idx >= 0 /\ idx < BufferSize
                         THEN [@ EXCEPT ![idx] = v] ELSE @,
              !.touched = @ \cup {idx}]

Load(m, idx) == IF idx >= 0 /\ idx < BufferSize THEN m.buffer[idx] ELSE 0

\* ssd1306_draw_pixel with = written for |= and &=.
ssd1306_draw_pixel_Assign(m, x, y, color) ==
    IF OutOfBounds(x, y) THEN m
    ELSE LET idx == PixelIndex(x, y)
             mask == Shl1(PixelBit(x, y))
         IN IF color
            THEN Store(m, idx, mask)
            ELSE Store(m, idx, Not8(mask))

ssd1306_draw_pixel(m, x, y, color) ==
    IF OutOfBounds(x, y) THEN m
    ELSE LET idx == PixelIndex(x, y)
             mask == Shl1(PixelBit(x, y))
         IN IF color
            THEN Store(m, idx, Or8(Load(m, idx), mask))
            ELSE Store(m, idx, And8(Load(m, idx), Not8(mask)))

\* The character test without its upper limit.
CharSupported_NoUpper(c) == ~(c < 32)

\* The character test with the upper limit one too high.
CharSupported_Upto127(c) == ~(c < 32 \/ c > 127)

\* The test at the head of ssd1306_draw_char: TRUE when c is drawn.
CharSupported(c) == ~(c < 32 \/ c > 126)

\* The inner loop drawing the set bits only (background left as it was).
RECURSIVE DrawColumn_Transparent(_, _, _, _, _, _, _)
DrawColumn_Transparent(m, px, y, line, color, ovf, j) ==
    IF j >= 8 THEN m
    ELSE LET m2 == IF And8(line, 1) # 0
                   THEN ssd1306_draw_pixel(m, px, IntAdd(y, j, ovf), color)
                   ELSE m
         IN IF Computed(m2)
            THEN DrawColumn_Transparent(m2, px, y, line \div 2, color, ovf, j + 1)
            ELSE m2

\* The inner loop painting the background off whatever the color.
RECURSIVE DrawColumn_BackgroundOff(_, _, _, _, _, _, _)
DrawColumn_BackgroundOff(m, px, y, line, color, ovf, j) ==
    IF j >= 8 THEN m
    ELSE LET m2 == ssd1306_draw_pixel(m, px, IntAdd(y, j, ovf),
                                      IF And8(line, 1) # 0 THEN color ELSE FALSE)
         IN IF Computed(m2)
            THEN DrawColumn_BackgroundOff(m2, px, y, line \div 2, color, ovf, j + 1)
            ELSE m2

\* Inner loop of ssd1306_draw_char: rows j .. 7 of one glyph column; px is
\* x + i and line has already been shifted right j times.
RECURSIVE DrawColumn(_, _, _, _, _, _, _)
DrawColumn(m, px, y, line, color, ovf, j) ==
    IF j >= 8 THEN m
    ELSE LET m2 == ssd1306_draw_pixel(m, px, IntAdd(y, j, ovf),
                                      IF And8(line, 1) # 0 THEN color ELSE ~color)
         IN IF Computed(m2)
            THEN DrawColumn(m2, px, y, line \div 2, color, ovf, j + 1)
            ELSE m2

\* uint8_t line = font5x7[row][col]: the byte of the table, or any byte when
\* the read falls outside it.
FontRead(m, row, col) ==
    IF row \in FontRows /\ col \in 0 .. 4 THEN FontByte(row, col) ELSE m.stray

\* Outer loop of ssd1306_draw_char: glyph columns i .. 4.
RECURSIVE DrawColumns(_, _, _, _, _, _, _)
DrawColumns(m, x, y, c, color, ovf, i) ==
    IF i >= 5 THEN m
    ELSE LET m1 == [m EXCEPT !.font = @ \cup {<<c - 32, i>>}]
             m2 == DrawColumn(m1, IntAdd(x, i, ovf), y, FontRead(m, c - 32, i),
                              color, ovf, 0)
         IN IF Computed(m2)
            THEN DrawColumns(m2, x, y, c, color, ovf, i + 1)
            ELSE m2

ssd1306_draw_char(m, x, y, c, color, ovf) ==
    IF ~CharSupported(c) THEN m
    ELSE DrawColumns(m, x, y, c, color, ovf, 0)

\* A string loop that moves the cursor on only past a character it drew.
RECURSIVE DrawFrom_SkipUnsupported(_, _, _, _, _, _, _)
DrawFrom_SkipUnsupported(m, x, y, str, color, ovf, k) ==
    IF k > Len(str) THEN m
    ELSE LET m2 == ssd1306_draw_char(m, x, y, str[k], color, ovf)
             x2 == IF CharSupported(str[k]) THEN IntAdd(x, 6, ovf) ELSE x
         IN IF Computed(m2)
            THEN DrawFrom_SkipUnsupported(m2, x2, y, str, color, ovf, k + 1)
            ELSE m2

\* ssd1306_draw_string: str is the characters before the terminating null;
\* k is the position of *str.
RECURSIVE DrawFrom(_, _, _, _, _, _, _)
DrawFrom(m, x, y, str, color, ovf, k) ==
    IF k > Len(str) THEN m
    ELSE LET m2 == ssd1306_draw_char(m, x, y, str[k], color, ovf)
         IN IF Computed(m2)
            THEN DrawFrom(m2, IntAdd(x, 6, ovf), y, str, color, ovf, k + 1)
            ELSE m2

ssd1306_draw_string(m, x, y, str, color, ovf) ==
    DrawFrom(m, x, y, str, color, ovf, 1)

\* -------------------------------------------------------------------- bus

\* i2c_write_blocking(i2c, addr, data, len, false): one write transaction.
\* The entry of the log records whether the device acknowledged it; the
\* return value (the byte count, or PICO_ERROR_GENERIC) is left in ack.
i2c_write_blocking(m, addr, bytes) ==
    LET k == m.n + 1 IN
    [m EXCEPT !.n = k,
              !.ack = (k # m.fail),
              !.bus = Append(@, [kind |-> "write", addr |-> addr,
                                 bytes |-> bytes, ok |-> (k # m.fail)])]

\* sleep_ms(ms).
sleep_ms(m, ms) ==
    [m EXCEPT !.bus = Append(@, [kind |-> "sleep", addr |-> 0,
                                 bytes |-> <<ms>>, ok |-> TRUE])]

\* A command sent with the continuation control byte 0x80.
ssd1306_write_command_Continuation(m, cmd) ==
    i2c_write_blocking(m, SSD1306_I2C_ADDR, <<128, cmd>>)

\* A command that is sent again when the device did not acknowledge it.
ssd1306_write_command_Retry(m, cmd) ==
    LET m2 == i2c_write_blocking(m, SSD1306_I2C_ADDR, <<0, cmd>>)
    IN IF m2.ack THEN m2
       ELSE i2c_write_blocking(m2, SSD1306_I2C_ADDR, <<0, cmd>>)

\* ssd1306_write_command: the value i2c_write_blocking returns is not used.
ssd1306_write_command(m, cmd) ==
    i2c_write_blocking(m, SSD1306_I2C_ADDR, <<0, cmd>>)

\* A data transaction that copies from the start of the framebuffer,
\* whatever page it was given.
ssd1306_write_data_FromStart(m, from, len) ==
    i2c_write_blocking(
        [m EXCEPT !.touched = @ \cup (0 .. len - 1)],
        SSD1306_I2C_ADDR,
        <<64>> \o [k \in 1 .. len |-> Load(m, k - 1)])

\* data points at buffer[from] and len bytes are copied after buf[0] = 0x40;
\* the value i2c_write_blocking returns is not used.
ssd1306_write_data(m, from, len) ==
    i2c_write_blocking(
        [m EXCEPT !.touched = @ \cup (from .. from + len - 1)],
        SSD1306_I2C_ADDR,
        <<64>> \o [k \in 1 .. len |-> Load(m, from + k - 1)])

\* The opcodes in the order of a listing that sets the column start address
\* right after the page start address, leaves out the display start line and
\* sets the segment remap before the contrast.
InitCommands_RemapBeforeContrast ==
    << 174, 32, 0, 176, 0, 16, 200, 161, 129, 255, 166, 168, 63,
       164, 211, 0, 213, 240, 217, 34, 218, 18, 219, 32, 141, 20, 175 >>

\* The opcodes ssd1306_init sends, in order.
InitCommands ==
    << 174, 32, 0, 176, 200, 0, 16, 64, 129, 255, 161, 166, 168, 63,
       164, 211, 0, 213, 240, 217, 34, 218, 18, 219, 32, 141, 20, 175 >>

RECURSIVE SendCommands(_, _, _)
SendCommands(m, cmds, k) ==
    IF k > Len(cmds) THEN m
    ELSE LET m2 == ssd1306_write_command(m, cmds[k])
         IN IF Computed(m2) THEN SendCommands(m2, cmds, k + 1) ELSE m2

\* An initialisation that sends its commands without the settling delay.
ssd1306_init_NoDelay(m) == SendCommands(m, InitCommands, 1)

ssd1306_init(m) == SendCommands(sleep_ms(m, 100), InitCommands, 1)

\* A refresh that sends the page before it resets the column pointer.
RECURSIVE UpdatePages_DataFirst(_, _)
UpdatePages_DataFirst(m, page) ==
    IF ~(page < 8) THEN m
    ELSE LET m2 == ssd1306_write_command(
                       ssd1306_write_command(
                           ssd1306_write_data(
                               ssd1306_write_command(m, (176 + page) % 256),
                               SSD1306_WIDTH * page, SSD1306_WIDTH), 0), 16)
         IN IF Computed(m2) THEN UpdatePages_DataFirst(m2, (page + 1) % 256)
            ELSE m2

\* A refresh that gives up at the first transaction the device does not
\* acknowledge and hands the error back to its caller.
RECURSIVE UpdatePages_StopOnError(_, _)
UpdatePages_StopOnError(m, page) ==
    IF ~(page < 8) THEN m
    ELSE LET c1 == ssd1306_write_command(m, (176 + page) % 256)
             c2 == IF c1.ack THEN ssd1306_write_command(c1, 0) ELSE c1
             c3 == IF c2.ack THEN ssd1306_write_command(c2, 16) ELSE c2
             m2 == IF c3.ack
                   THEN ssd1306_write_data(c3, SSD1306_WIDTH * page, SSD1306_WIDTH)
                   ELSE c3
         IN IF m2.ack THEN UpdatePages_StopOnError(m2, (page + 1) % 256)
            ELSE [m2 EXCEPT !.err = "PICO_ERROR_GENERIC"]

\* The loop of ssd1306_update from page on (page is a uint8_t).
RECURSIVE UpdatePages(_, _)
UpdatePages(m, page) ==
    IF ~(page < 8) THEN m
    ELSE LET m2 == ssd1306_write_data(
                       ssd1306_write_command(
                           ssd1306_write_command(
                               ssd1306_write_command(m, (176 + page) % 256), 0), 16),
                       SSD1306_WIDTH * page, SSD1306_WIDTH)
         IN IF Computed(m2) THEN UpdatePages(m2, (page + 1) % 256) ELSE m2

\* A refresh that blanks the framebuffer once it has been sent.
ssd1306_update_ThenBlank(m) ==
    [UpdatePages(m, 0) EXCEPT !.buffer = [k \in 0 .. BufferSize - 1 |-> 0]]

ssd1306_update(m) == UpdatePages(m, 0)

\* A clear that also pushes the blank framebuffer to the panel.
ssd1306_clear_AndUpdate(m) ==
    ssd1306_update([m EXCEPT !.buffer = [k \in 0 .. BufferSize - 1 |-> 0],
                             !.touched = @ \cup (0 .. BufferSize - 1)])

\* A clear whose memset covers one page (SSD1306_WIDTH bytes) only.
ssd1306_clear_FirstPage(m) ==
    [m EXCEPT !.buffer = [k \in 0 .. BufferSize - 1 |->
                             IF k < SSD1306_WIDTH THEN 0 ELSE @[k]],
              !.touched = @ \cup (0 .. SSD1306_WIDTH - 1)]

\* ssd1306_clear: memset(buffer, 0, sizeof(buffer)).
ssd1306_clear(m) ==
    [m EXCEPT !.buffer = [k \in 0 .. BufferSize - 1 |-> 0],
              !.touched = @ \cup (0 .. BufferSize - 1)]

\* ------------------------------------------------------------------ state

\* The pins of the application (src/interactive-traffic-light.c).
GREEN_LED == 11
RED_LED == 13
BUTTON_A == 5
BUTTON_B == 6
LED_VERMELHO == 13
LED_VERDE == 11
BUZZER == 21


VARIABLES
    buffer,     \* static uint8_t buffer[1024]
    bus,        \* the bus transactions and delays issued so far, in order
                \* (of the timer callbacks, those of the latest one)
    touched,    \* framebuffer indices read or written by the last call
    fontRead,   \* <<row, column>> indices of font5x7 read by the last call
    last,       \* the last driver call and its arguments
    before,     \* the call before the last one was an ssd1306_update
    prev,       \* the framebuffer as it stood when the last call was made
    sent,       \* the length of the bus log when the last call was made
    reported,   \* what the last call handed back to its caller
    nops,       \* number of driver calls made
    pc,         \* main: the position of the next statement in MainSteps
    current,    \* volatile struct light_state current
    button_A_pressed,
    button_B_pressed,
    gpio,       \* the levels of the output pins GREEN_LED and RED_LED
    buzzer,     \* the PWM level of the pin BUZZER
    timerArmed, \* the repeating timer of state_controller has been added
    irqEnabled, \* the pins whose falling edge calls button_interrupt_handler
    alarms,     \* pending beep_stop_callback alarms: timer periods still to go
    calls,      \* the driver operations the application has called, in order
    irq,        \* the arguments of the last call of button_interrupt_handler
    presses,    \* number of button interrupts served
    estado_atual,               \* part_000: volatile estado_semaforo_t
    botao_pressionado,
    contagem_regressiva_ativa,
    contador_regressivo,
    alarme_atual,               \* alarm_id_t, -1 for none
    alarme_contador,
    alarme_buzzer,
    pool,       \* part_000: the alarms that are pending
    leds,       \* part_000: the levels of LED_VERMELHO and LED_VERDE
    buzzer_estado,              \* part_000: static bool of callback_buzzer
    buzzer_pin, \* part_000: the level of the pin BUZZER
    decorrido,  \* part_000: time since ultimo_tempo, up to the debounce time
    fase,       \* part_000: how far main has come
    acionamentos,               \* part_000: presses the debounce accepted
    sc,         \* state_controller statement by statement: where it stands
    reg         \* the value current.duration -= 1000 has loaded

driverVars == <<buffer, bus, touched, fontRead, last, before, prev, sent,
                reported, nops>>

appVars == <<pc, current, button_A_pressed, button_B_pressed, gpio, buzzer,
             timerArmed, irqEnabled, alarms, calls, irq, presses>>

semaforoVars == <<estado_atual, botao_pressionado, contagem_regressiva_ativa,
                  contador_regressivo, alarme_atual, alarme_contador,
                  alarme_buzzer, pool, leds, buzzer_estado, buzzer_pin,
                  decorrido, fase, acionamentos>>

stepVars == <<sc, reg>>

vars == <<buffer, bus, touched, fontRead, last, before, prev, sent, reported, nops,
          pc, current, button_A_pressed, button_B_pressed, gpio, buzzer,
          timerArmed, irqEnabled, alarms, calls, irq, presses,
          estado_atual, botao_pressionado, contagem_regressiva_ativa,
          contador_regressivo, alarme_atual, alarme_contador, alarme_buzzer,
          pool, leds, buzzer_estado, buzzer_pin, decorrido, fase,
          acionamentos, sc, reg>>

\* ----------------------------------------------------------------- inputs

\* Pixel coordinates: the two ends of one byte, the last bit of the last
\* byte, and one coordinate beyond each edge.
PixelCoords ==
    {<<0, 0>>, <<0, 7>>, <<127, 63>>, <<-1, 0>>, <<128, 0>>, <<0, 64>>, <<3, -1>>}

\* Glyph calls <<x, y, c>>: 'A' on screen across a page boundary, cut by the
\* right and bottom edges, cut by the left and top edges and at the end of
\* int; the first and last supported codes; codes outside 32..126 (char may be
\* signed or unsigned on the build).
CharCalls ==
    {<<1, 3, 65>>, <<125, 59, 65>>, <<-2, -3, 65>>, <<INT_MAX - 2, 0, 65>>,
     <<1, 3, 32>>, <<1, 3, 126>>,
     <<1, 3, 31>>, <<1, 3, 127>>, <<1, 3, -1>>, <<1, 3, 200>>}

Strings == {<<65, 66>>, <<65, 10, 66>>}
StringOrigins == {<<0, 0>>, <<120, 16>>}

OvfModes == {"wrap", "exact"}

\* The transaction of a call the device leaves unacknowledged: none, the
\* second (a command) or the eighth (in ssd1306_update the data of page 1).
FailPoints == {0, 2, 8}

\* The overflow behaviours that can differ for a glyph cell at (x, y)
\* followed by n more cells.
OvfFor(x, y, n) ==
    IF x + 6 * n + 4 > INT_MAX \/ y + 7 > INT_MAX THEN OvfModes ELSE {"wrap"}

\* The bytes a read outside font5x7 can yield while str is drawn; it matters
\* only if a character of str that is drawn has no row in the table.
StrayFor(str) ==
    IF \E k \in 1 .. Len(str) : CharSupported(str[k]) /\ (str[k] - 32) \notin FontRows
    THEN {0, 255}
    ELSE {0}

Call(op, x, y, c, str, color, ovf) ==
    [op |-> op, x |-> x, y |-> y, c |-> c, str |-> str, color |-> color, ovf |-> ovf]

NoCall == Call("none", 0, 0, 0, << >>, FALSE, "wrap")

\* No callback of state_controller is running.
Idle == [at |-> "idle", k |-> 0]

\* No interrupt served yet.
NoIrq == [gpio |-> 0, events |-> {}]

\* ---------------------------------------------------------------- actions

\* part_000 at program start: the initialisers of its globals, no alarm
\* pending, the pins at their reset level.
InitSemaforo ==
    /\ estado_atual = "VERMELHO"
    /\ botao_pressionado = FALSE
    /\ contagem_regressiva_ativa = FALSE
    /\ contador_regressivo = 5
    /\ alarme_atual = -1
    /\ alarme_contador = -1
    /\ alarme_buzzer = -1
    /\ pool = {}
    /\ leds = [pin \in {LED_VERMELHO, LED_VERDE} |-> 0]
    /\ buzzer_estado = FALSE
    /\ buzzer_pin = 0
    /\ decorrido = 0
    /\ fase = "boot"
    /\ acionamentos = 0

Init ==
    /\ buffer = ZeroBuffer
    /\ bus = << >>
    /\ touched = {}
    /\ fontRead = {}
    /\ last = NoCall
    /\ before = FALSE
    /\ prev = ZeroBuffer
    /\ sent = 0
    /\ reported = "none"
    /\ nops = 0
    /\ pc = 1
    /\ current = [state |-> "RED", duration |-> 10000]
    /\ button_A_pressed = FALSE
    /\ button_B_pressed = FALSE
    /\ gpio = [pin \in {GREEN_LED, RED_LED} |-> 0]
    /\ buzzer = 0
    /\ timerArmed = FALSE
    /\ irqEnabled = {}
    /\ alarms = {}
    /\ calls = << >>
    /\ irq = NoIrq
    /\ presses = 0
    /\ InitSemaforo
    /\ sc = Idle
    /\ reg = 0

\* One driver call: m is what the call leaves.
Returned(m, call) ==
    /\ buffer' = m.buffer
    /\ bus' = m.bus
    /\ touched' = m.touched
    /\ fontRead' = m.font
    /\ last' = call
    /\ before' = (last.op = "update")
    /\ prev' = buffer
    /\ sent' = Len(bus)
    /\ reported' = m.err
    /\ nops' = nops + 1

CallInit ==
    /\ nops < MaxOps
    /\ \E f \in FailPoints :
       \E m \in {ssd1306_init(FaultyWorld(buffer, bus, f))} :
         Returned(m, Call("init", 0, 0, 0, << >>, FALSE, "wrap"))
    /\ UNCHANGED <<appVars, semaforoVars, stepVars>>

CallClear ==
    /\ nops < MaxOps
    /\ \E m \in {ssd1306_clear(World(buffer, bus))} :
         Returned(m, Call("clear", 0, 0, 0, << >>, FALSE, "wrap"))
    /\ UNCHANGED <<appVars, semaforoVars, stepVars>>

CallUpdate ==
    /\ nops < MaxOps
    /\ \E f \in FailPoints :
       \E m \in {ssd1306_update(FaultyWorld(buffer, bus, f))} :
         Returned(m, Call("update", 0, 0, 0, << >>, FALSE, "wrap"))
    /\ UNCHANGED <<appVars, semaforoVars, stepVars>>

CallDrawPixel ==
    /\ nops < MaxOps
    /\ \E p \in PixelCoords, color \in BOOLEAN :
       \E m \in {ssd1306_draw_pixel(World(buffer, bus), p[1], p[2], color)} :
         Returned(m, Call("draw_pixel", p[1], p[2], 0, << >>, color, "wrap"))
    /\ UNCHANGED <<appVars, semaforoVars, stepVars>>

CallDrawChar ==
    /\ nops < MaxOps
    /\ \E a \in CharCalls, color \in BOOLEAN :
       \E ovf \in OvfFor(a[1], a[2], 0) :
       \E st \in StrayFor(<<a[3]>>) :
       \E m \in {ssd1306_draw_char(StrayWorld(buffer, bus, st),
                                    a[1], a[2], a[3], color, ovf)} :
         Returned(m, Call("draw_char", a[1], a[2], a[3], << >>, color, ovf))
    /\ UNCHANGED <<appVars, semaforoVars, stepVars>>

CallDrawString ==
    /\ nops < MaxOps
    /\ \E o \in StringOrigins, str \in Strings, color \in BOOLEAN :
       \E ovf \in OvfFor(o[1], o[2], Len(str)) :
       \E st \in StrayFor(str) :
       \E m \in {ssd1306_draw_string(StrayWorld(buffer, bus, st),
                                      o[1], o[2], str, color, ovf)} :
         Returned(m, Call("draw_string", o[1], o[2], 0, str, color, ovf))
    /\ UNCHANGED <<appVars, semaforoVars, stepVars>>

Next ==
    \/ CallInit
    \/ CallClear
    \/ CallUpdate
    \/ CallDrawPixel
    \/ CallDrawChar
    \/ CallDrawString

Spec == Init /\ [][Next]_vars

\* ------------------------------------------------------------ application
\* src/interactive-traffic-light.c, the program with the OLED display.

\* Number of button interrupts followed.
MaxPresses == 2

\* Width of uint32_t in the model.
UintBits == 16

\* v as a uint32_t.
U32(v) == v % (2 ^ UintBits)

\* The string literals, as character codes.
TitleText == 
    << 84, 114, 97, 102, 102, 105, 99, 32, 76, 105,
       103, 104, 116, 32, 83, 121, 115, 116, 101, 109 >>    \* "Traffic Light System"
StateLabel == 
    << 67, 117, 114, 114, 101, 110, 116,
       32, 83, 116, 97, 116, 101, 58, 32 >>    \* "Current State: "
WalkText == <<87, 97, 108, 107, 33>>    \* "Walk!"
WaitText == <<87, 97, 105, 116>>    \* "Wait"
RedText == <<82, 69, 68>>    \* "RED"
YellowText == <<89, 69, 76, 76, 79, 87>>    \* "YELLOW"
GreenText == <<71, 82, 69, 69, 78>>    \* "GREEN"
CountdownLabel == 
    << 67, 111, 117, 110, 116,
       100, 111, 119, 110, 58, 32 >>    \* "Countdown: "
CountdownUnit == <<32, 115>>    \* " s"
PressedText == 
    << 66, 117, 116, 116, 111, 110, 32,
       80, 114, 101, 115, 115, 101, 100, 33 >>    \* "Button Pressed!"
WaitingText == 
    << 87, 97, 105, 116, 105, 110, 103, 32, 102, 111,
       114, 32, 98, 117, 116, 116, 111, 110, 46, 46, 46 >>    \* "Waiting for button..."

\* %d of a value that is not negative.
RECURSIVE DecimalDigits(_)
DecimalDigits(v) ==
    IF v < 10 THEN <<48 + v>>
    ELSE DecimalDigits(v \div 10) \o <<48 + (v % 10)>>

\* snprintf(str, size, ...): at most size - 1 characters are kept.
Snprintf(size, text) ==
    IF Len(text) <= size - 1 THEN text ELSE SubSeq(text, 1, size - 1)

some_button_pressed(a, b) == a \/ b

\* get_state_string. Nothing is returned for a state that is none of the
\* three; there is no such state.
get_state_string(cur, a, b) ==
    IF some_button_pressed(a, b) /\ cur.state = "RED" THEN WalkText
    ELSE IF some_button_pressed(a, b) THEN WaitText
    ELSE IF cur.state = "RED" THEN RedText
    ELSE IF cur.state = "YELLOW" THEN YellowText
    ELSE GreenText

\* The third line of update_display.
ThirdLine(cur, a, b) ==
    IF cur.state = "RED" /\ cur.duration <= 5000 /\ some_button_pressed(a, b)
    THEN Snprintf(32, CountdownLabel \o DecimalDigits(cur.duration \div 1000)
                          \o CountdownUnit)
    ELSE IF some_button_pressed(a, b) THEN Snprintf(32, PressedText)
    ELSE Snprintf(32, WaitingText)

\* The next driver call works on what the previous one left.
Enter(m) == World(m.buffer, m.bus)

\* update_display up to its last statement, the call of ssd1306_update.
DrawDisplay(m, cur, a, b) ==
    LET m1 == ssd1306_clear(m)
        m2 == ssd1306_draw_string(Enter(m1), 0, 0, Snprintf(32, TitleText),
                                  TRUE, "wrap")
        m3 == ssd1306_draw_string(Enter(m2), 0, 16,
                  Snprintf(32, StateLabel \o get_state_string(cur, a, b)),
                  TRUE, "wrap")
    IN ssd1306_draw_string(Enter(m3), 0, 32, ThirdLine(cur, a, b), TRUE, "wrap")

\* The driver operations one update_display calls.
DisplayCalls == <<"clear", "draw_string", "draw_string", "draw_string", "update">>

\* turn_on_red_signal, turn_on_green_signal, turn_on_yellow_signal: the
\* levels the two gpio_put calls leave.
turn_on_red_signal == [pin \in {GREEN_LED, RED_LED} |-> IF pin = RED_LED THEN 1 ELSE 0]
turn_on_green_signal == [pin \in {GREEN_LED, RED_LED} |-> IF pin = GREEN_LED THEN 1 ELSE 0]
turn_on_yellow_signal == [pin \in {GREEN_LED, RED_LED} |-> 1]

is_time_to_change(cur) == cur.duration <= 0

\* A change_state that enters RED without turn_on_red_signal.
change_state_NoRedSignal(cur, a, b, pins) ==
    IF cur.state = "RED"
    THEN [current |-> [state |-> "GREEN", duration |-> 10000],
          a |-> FALSE, b |-> FALSE, gpio |-> turn_on_green_signal]
    ELSE IF cur.state = "GREEN"
    THEN [current |-> [state |-> "YELLOW", duration |-> 3000],
          a |-> a, b |-> b, gpio |-> turn_on_yellow_signal]
    ELSE [current |-> [state |-> "RED", duration |-> 10000],
          a |-> a, b |-> b, gpio |-> pins]

\* A change_state that forgets the presses when GREEN ends.
change_state_ClearOnYellow(cur, a, b, pins) ==
    IF cur.state = "RED"
    THEN [current |-> [state |-> "GREEN", duration |-> 10000],
          a |-> FALSE, b |-> FALSE, gpio |-> turn_on_green_signal]
    ELSE IF cur.state = "GREEN"
    THEN [current |-> [state |-> "YELLOW", duration |-> 3000],
          a |-> FALSE, b |-> FALSE, gpio |-> turn_on_yellow_signal]
    ELSE [current |-> [state |-> "RED", duration |-> 10000],
          a |-> a, b |-> b, gpio |-> turn_on_red_signal]

\* A change_state that leaves out YELLOW: GREEN is followed by RED.
change_state_SkipYellow(cur, a, b, pins) ==
    IF cur.state = "RED"
    THEN [current |-> [state |-> "GREEN", duration |-> 10000],
          a |-> FALSE, b |-> FALSE, gpio |-> turn_on_green_signal]
    ELSE [current |-> [state |-> "RED", duration |-> 10000],
          a |-> a, b |-> b, gpio |-> turn_on_red_signal]

\* change_state: the state, the flags and the pin levels it leaves.
change_state(cur, a, b, pins) ==
    IF cur.state = "RED"
    THEN [current |-> [state |-> "GREEN", duration |-> 10000],
          a |-> FALSE, b |-> FALSE, gpio |-> turn_on_green_signal]
    ELSE IF cur.state = "GREEN"
    THEN [current |-> [state |-> "YELLOW", duration |-> 3000],
          a |-> a, b |-> b, gpio |-> turn_on_yellow_signal]
    ELSE IF cur.state = "YELLOW"
    THEN [current |-> [state |-> "RED", duration |-> 10000],
          a |-> a, b |-> b, gpio |-> turn_on_red_signal]
    ELSE [current |-> cur, a |-> a, b |-> b, gpio |-> pins]

\* The statements of main, in order, with setup and init_display unfolded;
\* after the last one main stays in its empty loop.
MainSteps_TimerBeforeDisplay ==
    << "setup", "add_repeating_timer_ms", "ssd1306_init", "ssd1306_clear",
       "ssd1306_update", "gpio_set_irq_enabled_with_callback",
       "gpio_set_irq_enabled" >>

MainSteps ==
    << "setup", "ssd1306_init", "ssd1306_clear", "ssd1306_update",
       "add_repeating_timer_ms", "gpio_set_irq_enabled_with_callback",
       "gpio_set_irq_enabled" >>

AtStep(name) == pc <= Len(MainSteps) /\ MainSteps[pc] = name

\* The statements of main during which time passes: setup sleeps 2000 ms,
\* ssd1306_init sleeps 100 ms and waits for the bus, ssd1306_update waits
\* for the bus. The others write a few registers or the framebuffer.
BlockingSteps == {"setup", "ssd1306_init", "ssd1306_update"}

\* The 1000 ms timer can come due where main is: in its final loop, or at a
\* statement during which time passes.
TimerMayFire ==
    IF pc > Len(MainSteps) THEN TRUE ELSE MainSteps[pc] \in BlockingSteps

\* One driver call made by main.
MainCalled(op) ==
    /\ pc' = pc + 1
    /\ calls' = Append(calls, op)
    /\ UNCHANGED <<current, button_A_pressed, button_B_pressed, gpio, buzzer,
                   timerArmed, irqEnabled, alarms, irq, presses>>
    /\ UNCHANGED <<semaforoVars, stepVars>>

\* setup(): the pins are initialised, the buzzer is silent and, after two
\* seconds, the red signal is on.
Setup ==
    /\ AtStep("setup")
    /\ pc' = pc + 1
    /\ gpio' = turn_on_red_signal
    /\ buzzer' = 0
    /\ UNCHANGED driverVars
    /\ UNCHANGED <<current, button_A_pressed, button_B_pressed, timerArmed,
                   irqEnabled, alarms, calls, irq, presses>>
    /\ UNCHANGED <<semaforoVars, stepVars>>

\* init_display(): ssd1306_init(I2C_PORT) after the set-up of the I2C pins.
DisplayInit ==
    /\ AtStep("ssd1306_init")
    /\ \E m \in {ssd1306_init(World(buffer, bus))} :
         Returned(m, Call("init", 0, 0, 0, << >>, FALSE, "wrap"))
    /\ MainCalled("init")

\* init_display(): ssd1306_clear().
DisplayClear ==
    /\ AtStep("ssd1306_clear")
    /\ \E m \in {ssd1306_clear(World(buffer, bus))} :
         Returned(m, Call("clear", 0, 0, 0, << >>, FALSE, "wrap"))
    /\ MainCalled("clear")

\* init_display(): ssd1306_update(I2C_PORT).
DisplayUpdate ==
    /\ AtStep("ssd1306_update")
    /\ \E m \in {ssd1306_update(World(buffer, bus))} :
         Returned(m, Call("update", 0, 0, 0, << >>, FALSE, "wrap"))
    /\ MainCalled("update")

\* add_repeating_timer_ms(-1000, state_controller, NULL, &timer).
AddTimer ==
    /\ AtStep("add_repeating_timer_ms")
    /\ pc' = pc + 1
    /\ timerArmed' = TRUE
    /\ UNCHANGED driverVars
    /\ UNCHANGED <<current, button_A_pressed, button_B_pressed, gpio, buzzer,
                   irqEnabled, alarms, calls, irq, presses>>
    /\ UNCHANGED <<semaforoVars, stepVars>>

\* gpio_set_irq_enabled_with_callback(BUTTON_A, GPIO_IRQ_EDGE_FALL, true,
\* &button_interrupt_handler).
EnableButtonA ==
    /\ AtStep("gpio_set_irq_enabled_with_callback")
    /\ pc' = pc + 1
    /\ irqEnabled' = irqEnabled \cup {BUTTON_A}
    /\ UNCHANGED driverVars
    /\ UNCHANGED <<current, button_A_pressed, button_B_pressed, gpio, buzzer,
                   timerArmed, alarms, calls, irq, presses>>
    /\ UNCHANGED <<semaforoVars, stepVars>>

\* gpio_set_irq_enabled(BUTTON_B, GPIO_IRQ_EDGE_FALL, true).
EnableButtonB ==
    /\ AtStep("gpio_set_irq_enabled")
    /\ pc' = pc + 1
    /\ irqEnabled' = irqEnabled \cup {BUTTON_B}
    /\ UNCHANGED driverVars
    /\ UNCHANGED <<current, button_A_pressed, button_B_pressed, gpio, buzzer,
                   timerArmed, alarms, calls, irq, presses>>
    /\ UNCHANGED <<semaforoVars, stepVars>>

\* An alarm that fires one timer period early.
AlarmPeriods_Early(duration_ms) == duration_ms \div 1000 - 1

\* The timer periods after which the alarm of add_alarm_in_ms(duration_ms)
\* fires when it is set inside the callback of the 1000 ms timer: the alarm
\* counts from the call, which comes after the start of the callback, so
\* that many more callbacks start before it.
AlarmPeriods(duration_ms) == duration_ms \div 1000

\* The callbacks go on for ever, so of their driver calls the histories
\* bus, calls and nops keep those of the latest callback only: a callback
\* that directly follows another takes its place there. What main called
\* and sent stays.
FollowsCallback ==
    /\ Len(calls) >= Len(DisplayCalls)
    /\ SubSeq(calls, Len(calls) - Len(DisplayCalls) + 1, Len(calls)) = DisplayCalls

\* update_display() where current is cur.
Display(cur) ==
    LET log == IF FollowsCallback THEN SubSeq(bus, 1, sent) ELSE bus
        done == IF FollowsCallback
                THEN SubSeq(calls, 1, Len(calls) - Len(DisplayCalls))
                ELSE calls
    IN /\ \E m1 \in {DrawDisplay(World(buffer, log), cur, button_A_pressed,
                                 button_B_pressed)} :
          \E m2 \in {ssd1306_update(Enter(m1))} :
             /\ buffer' = m2.buffer
             /\ bus' = m2.bus
             /\ touched' = m2.touched
             /\ fontRead' = m2.font
             /\ last' = Call("update", 0, 0, 0, << >>, FALSE, "wrap")
             /\ before' = FALSE
             /\ prev' = m1.buffer
             /\ sent' = Len(m1.bus)
             /\ reported' = m2.err
             /\ nops' = Len(done) + Len(DisplayCalls)
       /\ calls' = done \o DisplayCalls

\* update_display(), called by state_controller after it has taken 1000 ms
\* off the remaining duration.
UpdateDisplay == Display([current EXCEPT !.duration = U32(@ - 1000)])

\* state_controller() without its call of update_display: the duration, the
\* beep and the change of state. A pending alarm that is due fires before
\* the next callback.
StateController ==
    /\ timerArmed
    /\ TimerMayFire
    /\ \A al \in alarms : al > 0
    /\ LET cur == [current EXCEPT !.duration = U32(@ - 1000)]
           a == button_A_pressed
           b == button_B_pressed
           beeps == some_button_pressed(a, b) /\ cur.state = "RED"
                        /\ cur.duration = 5000
           after == IF is_time_to_change(cur)
                    THEN change_state(cur, a, b, gpio)
                    ELSE [current |-> cur, a |-> a, b |-> b, gpio |-> gpio]
       IN /\ buzzer' = IF beeps THEN 2048 ELSE buzzer
          /\ alarms' = {al - 1 : al \in alarms}
                           \cup (IF beeps THEN {AlarmPeriods(5000)} ELSE {})
          /\ current' = after.current
          /\ button_A_pressed' = after.a
          /\ button_B_pressed' = after.b
          /\ gpio' = after.gpio
    /\ UNCHANGED <<pc, timerArmed, irqEnabled, irq, presses>>
    /\ UNCHANGED <<semaforoVars, stepVars>>

\* state_controller(), the callback of the repeating timer.
TimerTick ==
    /\ StateController
    /\ UpdateDisplay

\* beep_stop_callback, the alarm set by beep.
BeepStop ==
    /\ 0 \in alarms
    /\ alarms' = alarms \ {0}
    /\ buzzer' = 0
    /\ UNCHANGED driverVars
    /\ UNCHANGED <<pc, current, button_A_pressed, button_B_pressed, gpio,
                   timerArmed, irqEnabled, calls, irq, presses>>
    /\ UNCHANGED <<semaforoVars, stepVars>>

\* A handler that leaves half a second.
button_interrupt_handler_HalfSecond(pin, events, cur, a) ==
    IF "GPIO_IRQ_EDGE_FALL" \in events
    THEN [current |-> [state |-> "GREEN", duration |-> 500], a |-> TRUE]
    ELSE [current |-> cur, a |-> a]

\* A handler that serves button A only.
button_interrupt_handler_OnlyA(pin, events, cur, a) ==
    IF "GPIO_IRQ_EDGE_FALL" \in events /\ pin = BUTTON_A
    THEN [current |-> [state |-> "GREEN", duration |-> 1000], a |-> TRUE]
    ELSE [current |-> cur, a |-> a]

\* button_interrupt_handler(gpio, events): what it leaves in current and in
\* button_A_pressed, whichever pin it was called for.
button_interrupt_handler(pin, events, cur, a) ==
    IF "GPIO_IRQ_EDGE_FALL" \in events
    THEN [current |-> [state |-> "GREEN", duration |-> 1000], a |-> TRUE]
    ELSE [current |-> cur, a |-> a]

\* One call button_interrupt_handler(pin, events) from the interrupt.
Interrupt(pin, events) ==
    /\ \E r \in {button_interrupt_handler(pin, events, current,
                                          button_A_pressed)} :
         /\ current' = r.current
         /\ button_A_pressed' = r.a
    /\ irq' = [gpio |-> pin, events |-> events]
    /\ presses' = presses + 1
    /\ UNCHANGED driverVars
    /\ UNCHANGED <<pc, button_B_pressed, gpio, buzzer, timerArmed, irqEnabled,
                   alarms, calls>>
    /\ UNCHANGED <<semaforoVars, stepVars>>

\* A falling edge on a button whose interrupt is enabled; the falling edge
\* is the only event main enables.
ButtonPress ==
    /\ presses < MaxPresses
    /\ \E pin \in irqEnabled : Interrupt(pin, {"GPIO_IRQ_EDGE_FALL"})

AppNext ==
    \/ Setup
    \/ DisplayInit
    \/ DisplayClear
    \/ DisplayUpdate
    \/ AddTimer
    \/ EnableButtonA
    \/ EnableButtonB
    \/ TimerTick
    \/ BeepStop
    \/ ButtonPress

SpecApp == Init /\ [][AppNext]_vars

\* main goes from one statement to the next until it is in its final loop.
\* Every statement of main returns, so main can take a step exactly when it
\* is not yet in that loop.
MainRuns ==
    /\ pc <= Len(MainSteps)
    /\ pc' = pc + 1

\* main runs on, the repeating timer comes due every 1000 ms and a due alarm
\* fires; nothing is asked of the buttons. update_display always returns, so
\* the callback can run exactly when StateController can.
AppFairness ==
    /\ WF_pc(MainRuns)
    /\ WF_current(StateController)
    /\ WF_vars(BeepStop)

SpecAppFair == SpecApp /\ AppFairness

\* ------------------------------------------------------------ the handler
\* button_interrupt_handler as a function of its arguments and of the state
\* it is called in.

\* The event bits of the parameter events.
GpioEvents ==
    {"GPIO_IRQ_LEVEL_LOW", "GPIO_IRQ_LEVEL_HIGH", "GPIO_IRQ_EDGE_FALL",
     "GPIO_IRQ_EDGE_RISE"}

\* The values of current at the start and at the end of each phase, and in
\* the second after a press.
HandlerStates ==
    {[state |-> "RED", duration |-> 10000], [state |-> "RED", duration |-> 1000],
     [state |-> "GREEN", duration |-> 10000], [state |-> "GREEN", duration |-> 1000],
     [state |-> "YELLOW", duration |-> 3000], [state |-> "YELLOW", duration |-> 1000]}

\* The program after main has reached its loop, in any phase of the light.
InitHandler ==
    /\ buffer = ZeroBuffer
    /\ bus = << >>
    /\ touched = {}
    /\ fontRead = {}
    /\ last = NoCall
    /\ before = FALSE
    /\ prev = ZeroBuffer
    /\ sent = 0
    /\ reported = "none"
    /\ nops = 0
    /\ pc = Len(MainSteps) + 1
    /\ current \in HandlerStates
    /\ button_A_pressed \in BOOLEAN
    /\ button_B_pressed = FALSE
    /\ gpio = IF current.state = "RED" THEN turn_on_red_signal
              ELSE IF current.state = "GREEN" THEN turn_on_green_signal
              ELSE turn_on_yellow_signal
    /\ buzzer = 0
    /\ timerArmed = TRUE
    /\ irqEnabled = {BUTTON_A, BUTTON_B}
    /\ alarms = {}
    /\ calls = << >>
    /\ irq = NoIrq
    /\ presses = 0
    /\ InitSemaforo
    /\ sc = Idle
    /\ reg = 0

\* The handler called for either pin with any set of event bits.
HandlerCall ==
    /\ presses < MaxPresses
    /\ \E pin \in {BUTTON_A, BUTTON_B} :
       \E events \in SUBSET GpioEvents : Interrupt(pin, events)

SpecHandler == InitHandler /\ [][HandlerCall]_vars

\* --------------------------------------------------------------- semaforo
\* src/unnamed/part_000, the traffic light driven by one-shot alarms.

\* The unit of time of this part, in ms: every alarm delay of the program
\* that is not below it, and the debounce time, is a multiple.
UnitMs == 100

TEMPO_VERMELHO == 10000
TEMPO_VERDE == 10000
TEMPO_AMARELO == 3000

\* The debounce time of callback_botao, 300000 us, in units.
DebounceUnits == 300000 \div (1000 * UnitMs)

\* The globals of part_000 as one record.
Semaforo ==
    [estado_atual |-> estado_atual,
     botao_pressionado |-> botao_pressionado,
     contagem_regressiva_ativa |-> contagem_regressiva_ativa,
     contador_regressivo |-> contador_regressivo,
     alarme_atual |-> alarme_atual,
     alarme_contador |-> alarme_contador,
     alarme_buzzer |-> alarme_buzzer,
     pool |-> pool,
     leds |-> leds,
     buzzer_estado |-> buzzer_estado,
     buzzer_pin |-> buzzer_pin]

\* The globals become those of s.
Becomes(s) ==
    /\ estado_atual' = s.estado_atual
    /\ botao_pressionado' = s.botao_pressionado
    /\ contagem_regressiva_ativa' = s.contagem_regressiva_ativa
    /\ contador_regressivo' = s.contador_regressivo
    /\ alarme_atual' = s.alarme_atual
    /\ alarme_contador' = s.alarme_contador
    /\ alarme_buzzer' = s.alarme_buzzer
    /\ pool' = s.pool
    /\ leds' = s.leds
    /\ buzzer_estado' = s.buzzer_estado
    /\ buzzer_pin' = s.buzzer_pin

\* The ids in use: those of the pending alarms and those the program holds.
IdsInUse(s) ==
    {al.id : al \in s.pool} \cup {s.alarme_atual, s.alarme_contador, s.alarme_buzzer}

\* The id add_alarm_in_ms returns: one that names no pending alarm and that
\* the program does not hold from an earlier alarm. The pool does not run
\* full with the presses followed here.
NewAlarmId(s) ==
    CHOOSE n \in 1 .. Cardinality(IdsInUse(s)) + 1 :
        /\ n \notin IdsInUse(s)
        /\ \A k \in 1 .. n - 1 : k \in IdsInUse(s)

\* add_alarm_in_ms(ms, callback, NULL, true): the pool with the new alarm.
\* due counts the units until the alarm fires; again says that the alarm
\* has come back in less than a unit.
add_alarm_in_ms(s, id, ms, callback) ==
    s.pool \cup {[id |-> id, callback |-> callback,
                  due |-> ms \div UnitMs, again |-> FALSE]}

\* cancel_alarm(id).
cancel_alarm(s, id) == {al \in s.pool : al.id # id}

\* atualizar_semaforo(novo_estado).
atualizar_semaforo(s, novo_estado) ==
    [s EXCEPT !.estado_atual = novo_estado,
              !.leds = [pin \in {LED_VERMELHO, LED_VERDE} |->
                           IF novo_estado = "VERMELHO"
                           THEN (IF pin = LED_VERMELHO THEN 1 ELSE 0)
                           ELSE IF novo_estado = "VERDE"
                           THEN (IF pin = LED_VERDE THEN 1 ELSE 0)
                           ELSE 1]]

\* iniciar_ciclo_semaforo().
iniciar_ciclo_semaforo(s) ==
    LET tempo_ms == IF s.estado_atual = "VERMELHO" THEN TEMPO_VERMELHO
                    ELSE IF s.estado_atual = "VERDE" THEN TEMPO_VERDE
                    ELSE TEMPO_AMARELO
        id1 == NewAlarmId(s)
        s1 == [s EXCEPT !.alarme_atual = id1,
                        !.pool = add_alarm_in_ms(s, id1, tempo_ms, "troca_estado")]
        id2 == NewAlarmId(s1)
        s2 == [s1 EXCEPT !.contagem_regressiva_ativa = TRUE,
                         !.contador_regressivo = 5,
                         !.alarme_contador = id2,
                         !.pool = add_alarm_in_ms(s1, id2, tempo_ms - 5000,
                                                  "contador_regressivo")]
        id3 == NewAlarmId(s2)
    IN IF s1.estado_atual = "VERMELHO" /\ s1.botao_pressionado
       THEN [s2 EXCEPT !.alarme_buzzer = id3,
                       !.pool = add_alarm_in_ms(s2, id3, 100, "buzzer"),
                       !.botao_pressionado = FALSE]
       ELSE s1

\* callback_troca_estado: the globals it leaves; it returns 0.
callback_troca_estado(s) ==
    LET s1 == [s EXCEPT !.contagem_regressiva_ativa = FALSE]
        s2 == IF s1.estado_atual = "VERMELHO" THEN atualizar_semaforo(s1, "VERDE")
              ELSE IF s1.estado_atual = "VERDE" THEN atualizar_semaforo(s1, "AMARELO")
              ELSE atualizar_semaforo(s1, "VERMELHO")
    IN iniciar_ciclo_semaforo(s2)

\* callback_contador_regressivo: the globals it leaves and what it returns,
\* in us.
callback_contador_regressivo(s) ==
    IF s.contagem_regressiva_ativa
    THEN [s |-> [s EXCEPT !.contador_regressivo = @ - 1],
          ret |-> IF s.contador_regressivo - 1 >= 0 THEN 1000 ELSE 0]
    ELSE [s |-> s, ret |-> 0]

\* What callback_buzzer can return when contador_regressivo <= 3: intervalo_ms
\* is read without having been assigned. Of the values an int can hold, one
\* that ends the alarm, one below a unit and one of a unit.
Unassigned == {0, 200, 1000 * UnitMs}

\* callback_buzzer: the globals it can leave and what it returns, in us.
callback_buzzer(s) ==
    IF s.contagem_regressiva_ativa
    THEN LET s1 == [s EXCEPT !.buzzer_estado = ~@,
                             !.buzzer_pin = IF s.buzzer_estado THEN 0 ELSE 1]
         IN IF s.contador_regressivo > 3
            THEN {[s |-> s1, ret |-> 200]}
            ELSE {[s |-> s1, ret |-> v] : v \in Unassigned}
    ELSE {[s |-> [s EXCEPT !.buzzer_pin = 0], ret |-> 0]}

\* The pool after the callback of alarm al has returned ret (us): 0 ends the
\* alarm, any other value sets it again that long after the return.
Rescheduled(s, al, ret) ==
    IF ret = 0 THEN s.pool
    ELSE s.pool \cup {[id |-> al.id, callback |-> al.callback,
                       due |-> ret \div (1000 * UnitMs),
                       again |-> ret < 1000 * UnitMs]}

\* main up to configurar_gpio(): the interrupt of the button is enabled.
ConfigurarGpio ==
    /\ fase = "boot"
    /\ fase' = "gpio"
    /\ UNCHANGED <<estado_atual, botao_pressionado, contagem_regressiva_ativa,
                   contador_regressivo, alarme_atual, alarme_contador,
                   alarme_buzzer, pool, leds, buzzer_estado, buzzer_pin,
                   decorrido, acionamentos>>
    /\ UNCHANGED <<driverVars, appVars, stepVars>>

\* main: atualizar_semaforo(VERMELHO); iniciar_ciclo_semaforo(); from then on
\* main sleeps in its loop.
IniciarCiclo ==
    /\ fase = "gpio"
    /\ fase' = "loop"
    /\ Becomes(iniciar_ciclo_semaforo(atualizar_semaforo(Semaforo, "VERMELHO")))
    /\ UNCHANGED <<decorrido, acionamentos>>
    /\ UNCHANGED <<driverVars, appVars, stepVars>>

\* One unit of time passes. No alarm that is due is left waiting, and main
\* reaches its loop in less than a unit.
Passa ==
    /\ fase = "loop"
    /\ \A al \in pool : al.due = 0 => al.again
    /\ pool' = {[al EXCEPT !.due = IF @ > 0 THEN @ - 1 ELSE 0, !.again = FALSE]
                   : al \in pool}
    /\ decorrido' = IF decorrido < DebounceUnits THEN decorrido + 1 ELSE decorrido
    /\ UNCHANGED <<estado_atual, botao_pressionado, contagem_regressiva_ativa,
                   contador_regressivo, alarme_atual, alarme_contador,
                   alarme_buzzer, leds, buzzer_estado, buzzer_pin, fase,
                   acionamentos>>
    /\ UNCHANGED <<driverVars, appVars, stepVars>>

\* An alarm of callback_troca_estado fires.
TrocaEstado ==
    /\ \E al \in pool :
         /\ al.callback = "troca_estado"
         /\ al.due = 0
         /\ Becomes(callback_troca_estado([Semaforo EXCEPT !.pool = @ \ {al}]))
    /\ UNCHANGED <<decorrido, fase, acionamentos>>
    /\ UNCHANGED <<driverVars, appVars, stepVars>>

\* An alarm of callback_contador_regressivo fires.
ContadorRegressivo ==
    /\ \E al \in pool :
         /\ al.callback = "contador_regressivo"
         /\ al.due = 0
         /\ LET s == [Semaforo EXCEPT !.pool = @ \ {al}]
                r == callback_contador_regressivo(s)
            IN Becomes([r.s EXCEPT !.pool = Rescheduled(r.s, al, r.ret)])
    /\ UNCHANGED <<decorrido, fase, acionamentos>>
    /\ UNCHANGED <<driverVars, appVars, stepVars>>

\* An alarm of callback_buzzer fires.
Buzzer ==
    /\ \E al \in pool :
         /\ al.callback = "buzzer"
         /\ al.due = 0
         /\ \E r \in callback_buzzer([Semaforo EXCEPT !.pool = @ \ {al}]) :
              Becomes([r.s EXCEPT !.pool = Rescheduled(r.s, al, r.ret)])
    /\ UNCHANGED <<decorrido, fase, acionamentos>>
    /\ UNCHANGED <<driverVars, appVars, stepVars>>

\* callback_botao(gpio, eventos): the accepted press.
callback_botao(s) ==
    LET s1 == [s EXCEPT !.botao_pressionado = TRUE]
        s2 == IF s1.alarme_atual >= 0
              THEN [s1 EXCEPT !.pool = cancel_alarm(s1, s1.alarme_atual)]
              ELSE s1
        s3 == atualizar_semaforo(s2, "AMARELO")
        id == NewAlarmId(s3)
    IN IF s2.estado_atual # "AMARELO"
       THEN [s3 EXCEPT !.alarme_atual = id,
                       !.pool = add_alarm_in_ms(s3, id, TEMPO_AMARELO, "troca_estado")]
       ELSE s2

\* A falling edge on BOTAO_PEDESTRE: callback_botao returns at once when the
\* debounce time has not passed since the last accepted press (since the
\* start, for the first).
Botao ==
    /\ fase # "boot"
    /\ acionamentos < MaxPresses
    /\ IF decorrido < DebounceUnits
       THEN UNCHANGED semaforoVars
       ELSE /\ Becomes(callback_botao(Semaforo))
            /\ decorrido' = 0
            /\ acionamentos' = acionamentos + 1
            /\ UNCHANGED fase
    /\ UNCHANGED <<driverVars, appVars, stepVars>>

SemaforoNext ==
    \/ ConfigurarGpio
    \/ IniciarCiclo
    \/ Passa
    \/ TrocaEstado
    \/ ContadorRegressivo
    \/ Buzzer
    \/ Botao

SpecSemaforo == Init /\ [][SemaforoNext]_vars

\* ------------------------------------------------------------- statements
\* src/interactive-traffic-light.c with state_controller and change_state
\* taken one statement at a time, the button handler running between any
\* two of them.

\* The assignments and calls of the three cases of change_state, in order.
CaseStatements(state) ==
    IF state = "RED"
    THEN << [var |-> "button_A_pressed", val |-> FALSE],
            [var |-> "button_B_pressed", val |-> FALSE],
            [var |-> "gpio", val |-> turn_on_green_signal],
            [var |-> "state", val |-> "GREEN"],
            [var |-> "duration", val |-> 10000] >>
    ELSE IF state = "GREEN"
    THEN << [var |-> "gpio", val |-> turn_on_yellow_signal],
            [var |-> "state", val |-> "YELLOW"],
            [var |-> "duration", val |-> 3000] >>
    ELSE IF state = "YELLOW"
    THEN << [var |-> "gpio", val |-> turn_on_red_signal],
            [var |-> "state", val |-> "RED"],
            [var |-> "duration", val |-> 10000] >>
    ELSE << >>

\* What a statement of state_controller leaves alone besides what it names.
ScKeeps ==
    /\ UNCHANGED <<pc, timerArmed, irqEnabled, irq, presses>>
    /\ UNCHANGED semaforoVars

\* The callback starts: current.duration -= 1000 loads the duration. A
\* pending alarm that is due fires before the callback.
ScLoad ==
    /\ timerArmed
    /\ TimerMayFire
    /\ sc = Idle
    /\ \A al \in alarms : al > 0
    /\ reg' = current.duration
    /\ sc' = [at |-> "store", k |-> 0]
    /\ alarms' = {al - 1 : al \in alarms}
    /\ UNCHANGED <<current, button_A_pressed, button_B_pressed, gpio, buzzer, calls>>
    /\ UNCHANGED driverVars
    /\ ScKeeps

\* current.duration -= 1000 stores the difference.
ScStore ==
    /\ sc.at = "store"
    /\ current' = [current EXCEPT !.duration = U32(reg - 1000)]
    /\ sc' = [at |-> "display", k |-> 0]
    /\ UNCHANGED <<button_A_pressed, button_B_pressed, gpio, buzzer, alarms>>
    /\ UNCHANGED <<calls, reg>>
    /\ UNCHANGED driverVars
    /\ ScKeeps

\* update_display(); it assigns none of the globals of the light.
ScDisplay ==
    /\ sc.at = "display"
    /\ Display(current)
    /\ sc' = [at |-> "beep", k |-> 0]
    /\ UNCHANGED <<current, button_A_pressed, button_B_pressed, gpio, buzzer,
                   alarms, reg>>
    /\ ScKeeps

\* The test for the beep, and beep(BUZZER, 5000).
ScBeep ==
    /\ sc.at = "beep"
    /\ LET beeps == /\ some_button_pressed(button_A_pressed, button_B_pressed)
                    /\ current.state = "RED"
                    /\ current.duration = 5000
       IN /\ buzzer' = IF beeps THEN 2048 ELSE buzzer
          /\ alarms' = alarms \cup (IF beeps THEN {AlarmPeriods(5000)} ELSE {})
    /\ sc' = [at |-> "test", k |-> 0]
    /\ UNCHANGED <<current, button_A_pressed, button_B_pressed, gpio, calls, reg>>
    /\ UNCHANGED driverVars
    /\ ScKeeps

\* if (is_time_to_change()): the callback returns or enters change_state.
ScTest ==
    /\ sc.at = "test"
    /\ sc' = IF is_time_to_change(current) THEN [at |-> "switch", k |-> 0] ELSE Idle
    /\ UNCHANGED <<current, button_A_pressed, button_B_pressed, gpio, buzzer,
                   alarms, calls, reg>>
    /\ UNCHANGED driverVars
    /\ ScKeeps

\* switch (current.state) of change_state.
ScSwitch ==
    /\ sc.at = "switch"
    /\ sc' = IF CaseStatements(current.state) = << >> THEN Idle
             ELSE [at |-> current.state, k |-> 1]
    /\ UNCHANGED <<current, button_A_pressed, button_B_pressed, gpio, buzzer,
                   alarms, calls, reg>>
    /\ UNCHANGED driverVars
    /\ ScKeeps

\* One statement of the case that change_state has entered; after the last
\* one the callback returns.
ScStatement ==
    /\ sc.at \in {"RED", "GREEN", "YELLOW"}
    /\ LET st == CaseStatements(sc.at)[sc.k]
       IN /\ button_A_pressed' = IF st.var = "button_A_pressed" THEN st.val
                                 ELSE button_A_pressed
          /\ button_B_pressed' = IF st.var = "button_B_pressed" THEN st.val
                                 ELSE button_B_pressed
          /\ gpio' = IF st.var = "gpio" THEN st.val ELSE gpio
          /\ current' = IF st.var = "state" THEN [current EXCEPT !.state = st.val]
                        ELSE IF st.var = "duration"
                        THEN [current EXCEPT !.duration = st.val]
                        ELSE current
    /\ sc' = IF sc.k = Len(CaseStatements(sc.at)) THEN Idle
             ELSE [sc EXCEPT !.k = @ + 1]
    /\ UNCHANGED <<buzzer, alarms, calls, reg>>
    /\ UNCHANGED driverVars
    /\ ScKeeps

StepNext ==
    \/ Setup
    \/ DisplayInit
    \/ DisplayClear
    \/ DisplayUpdate
    \/ AddTimer
    \/ EnableButtonA
    \/ EnableButtonB
    \/ ScLoad
    \/ ScStore
    \/ ScDisplay
    \/ ScBeep
    \/ ScTest
    \/ ScSwitch
    \/ ScStatement
    \/ BeepStop
    \/ ButtonPress

SpecSteps == Init /\ [][StepNext]_vars

\* ------------------------------------------------------------- properties

\* The pixel (x, y) as the data model stores it: bit y mod 8 of byte
\* x + (y / 8) * 128.
GetPixel(buf, x, y) == Bit(buf[x + (y \div 8) * 128], y % 8) = 1

OnScreen(x, y) == x >= 0 /\ x < 128 /\ y >= 0 /\ y < 64

DrawOps == {"clear", "draw_pixel", "draw_char", "draw_string"}

\* Bit j of column i of the glyph of c.
GlyphBit(c, i, j) == Bit(font5x7[(c - 32) + 1][i + 1], j) = 1

\* The 5 x 8 cell at (x, y), which must be on screen.
CellOf(buf, x, y) == [i \in 0 .. 4 |-> [j \in 0 .. 7 |-> GetPixel(buf, x + i, y + j)]]

InverseCell(cell) == [i \in 0 .. 4 |-> [j \in 0 .. 7 |-> ~cell[i][j]]]

\* C1: after ssd1306_draw_pixel(x, y, on) with 0 <= x < 128 and 0 <= y < 64,
\* bit y mod 8 of buffer[x + (y / 8) * 128] equals on, whatever the
\* framebuffer held before.
C1_PixelReadsBack ==
    (last.op = "draw_pixel" /\ OnScreen(last.x, last.y))
        => (Bit(buffer[last.x + (last.y \div 8) * 128], last.y % 8)
                = IF last.color THEN 1 ELSE 0)

\* A pixel that was on has been turned off.
C1_Witness ==
    /\ last.op = "draw_pixel" /\ OnScreen(last.x, last.y)
    /\ ~last.color
    /\ GetPixel(prev, last.x, last.y)
    /\ ~GetPixel(buffer, last.x, last.y)

\* C2: an in-range ssd1306_draw_pixel(x, y, on) changes at most the bit that
\* (x, y) maps to: every other byte, and every other bit of that byte, is as
\* it was before the call.
C2_OnlyOneBit ==
    (last.op = "draw_pixel" /\ OnScreen(last.x, last.y))
        => LET idx == last.x + (last.y \div 8) * 128
               bit == last.y % 8
           IN /\ \A k \in 0 .. 1023 : k # idx => buffer[k] = prev[k]
              /\ \A b \in 0 .. 7 : b # bit => Bit(buffer[idx], b) = Bit(prev[idx], b)

\* The call changed its bit in a byte that holds another set bit.
C2_Witness ==
    /\ last.op = "draw_pixel" /\ OnScreen(last.x, last.y)
    /\ buffer # prev
    /\ \E b \in 0 .. 7 :
         b # last.y % 8 /\ Bit(prev[last.x + (last.y \div 8) * 128], b) = 1

\* C3: ssd1306_draw_pixel(x, y, on) with x < 0, x >= 128, y < 0 or y >= 64
\* leaves the whole framebuffer unchanged, for both values of on.
C3_OutOfRangeNoOp ==
    (last.op = "draw_pixel"
        /\ (last.x < 0 \/ last.x >= 128 \/ last.y < 0 \/ last.y >= 64))
        => buffer = prev

\* A call just past the right edge on a framebuffer that is not blank.
C3_Witness ==
    /\ last.op = "draw_pixel" /\ last.x = 128 /\ last.color
    /\ prev # ZeroBuffer /\ buffer = prev

\* The coordinate the data model reads from bit b of byte k.
CoordOf(k, b) == <<k % 128, (k \div 128) * 8 + b>>

\* Every in-range coordinate is found again from its (byte, bit).
MapOneToOne ==
    \A x \in 0 .. 127, y \in 0 .. 63 :
        /\ PixelIndex(x, y) \in 0 .. 1023
        /\ PixelBit(x, y) \in 0 .. 7
        /\ CoordOf(PixelIndex(x, y), PixelBit(x, y)) = <<x, y>>

\* Every (byte, bit) is the image of an in-range coordinate.
MapOnto ==
    \A k \in 0 .. 1023, b \in 0 .. 7 :
        LET c == CoordOf(k, b) IN
        /\ OnScreen(c[1], c[2])
        /\ PixelIndex(c[1], c[2]) = k
        /\ PixelBit(c[1], c[2]) = b

\* C4: (x, y) -> (x + (y / 8) * 128, y mod 8) is one-to-one from the 128 x 64
\* in-range coordinates onto the 1024 * 8 bit locations, and an in-range
\* ssd1306_draw_pixel accesses the byte of its own coordinate only.
C4_MapBijective ==
    /\ MapOneToOne
    /\ MapOnto
    /\ (last.op = "draw_pixel" /\ OnScreen(last.x, last.y))
          => \E k \in 0 .. 1023 :
                /\ touched = {k}
                /\ CoordOf(k, PixelBit(last.x, last.y)) = <<last.x, last.y>>

\* The last coordinate has been drawn into the last bit of the last byte.
C4_Witness ==
    /\ last.op = "draw_pixel" /\ last.x = 127 /\ last.y = 63
    /\ touched = {1023}
    /\ (last.color => buffer[1023] >= 128)

\* C5: every framebuffer index a driver call reads or writes lies in
\* 0 .. 1023, whatever the call and its arguments.
C5_NoOutOfBounds == touched \subseteq 0 .. 1023

\* A string that runs past the right edge has been drawn.
C5_Witness ==
    /\ last.op = "draw_string" /\ last.x + 6 * Len(last.str) > 128
    /\ touched # {}

\* C6: after ssd1306_clear every byte of the framebuffer is zero and every
\* one of the 8192 pixels reads off.
C6_ClearBlanks ==
    last.op = "clear"
        => /\ \A k \in 0 .. 1023 : buffer[k] = 0
           /\ \A x \in 0 .. 127, y \in 0 .. 63 : ~GetPixel(buffer, x, y)

\* A framebuffer with pixels set has been cleared.
C6_Witness == last.op = "clear" /\ prev # ZeroBuffer /\ buffer = ZeroBuffer

\* C7: the bus log changes only in ssd1306_init and ssd1306_update; a step of
\* ssd1306_clear, ssd1306_draw_pixel, ssd1306_draw_char or
\* ssd1306_draw_string leaves it as it was.
C7_DrawingStaysInMemory ==
    [][ /\ (last'.op \in DrawOps => bus' = bus)
        /\ (bus' # bus => last'.op \in {"init", "update"}) ]_vars

\* A drawing call has changed the framebuffer after the bus was used.
C7_Witness ==
    /\ last.op \in DrawOps /\ buffer # prev
    /\ Len(bus) > 0

\* C8: ssd1306_draw_char(x, y, c, color) with c outside 32 .. 126 leaves the
\* framebuffer unchanged.
C8_UnsupportedCharNoOp ==
    (last.op = "draw_char" /\ (last.c < 32 \/ last.c > 126)) => buffer = prev

\* Code 127 has been asked for on a framebuffer that is not blank.
C8_Witness ==
    /\ last.op = "draw_char" /\ last.c = 127
    /\ OnScreen(last.x, last.y)
    /\ prev # ZeroBuffer /\ buffer = prev

\* C9: after ssd1306_draw_char(x, y, c, color) with 32 <= c <= 126, every
\* on-screen pixel (x + i, y + j), 0 <= i <= 4, 0 <= j <= 7, is color where
\* bit j of font5x7[c - 32][i] is set and NOT color elsewhere, whatever it was.
C9_CellRepainted ==
    (last.op = "draw_char" /\ last.c >= 32 /\ last.c <= 126)
        => \A i \in 0 .. 4, j \in 0 .. 7 :
              OnScreen(last.x + i, last.y + j)
                  => (GetPixel(buffer, last.x + i, last.y + j)
                          = IF GlyphBit(last.c, i, j) THEN last.color ELSE ~last.color)

\* A glyph has been drawn over set pixels: one of them is now off as
\* background of a lit glyph, or as glyph pixel of a dark one.
C9_Witness ==
    /\ last.op = "draw_char" /\ last.c = 65
    /\ \E i \in 0 .. 4, j \in 0 .. 7 :
         /\ OnScreen(last.x + i, last.y + j)
         /\ GetPixel(prev, last.x + i, last.y + j)
         /\ ~GetPixel(buffer, last.x + i, last.y + j)
    /\ \E i \in 0 .. 4, j \in 0 .. 7 :
         /\ OnScreen(last.x + i, last.y + j)
         /\ GetPixel(buffer, last.x + i, last.y + j)

\* Framebuffers to draw the opposite color on.
OtherPriors == {ZeroBuffer, prev, buffer}

\* C10: for 32 <= c <= 126 and a cell fully on screen, the cell drawn by
\* ssd1306_draw_char(x, y, c, color) is the bitwise inverse of the cell that
\* ssd1306_draw_char(x, y, c, NOT color) draws, on any framebuffer.
C10_InverseCell ==
    (/\ last.op = "draw_char" /\ last.c >= 32 /\ last.c <= 126
     /\ OnScreen(last.x, last.y) /\ OnScreen(last.x + 4, last.y + 7))
        => \A other \in OtherPriors :
              CellOf(ssd1306_draw_char(World(other, << >>), last.x, last.y, last.c,
                                       ~last.color, "wrap").buffer,
                     last.x, last.y)
                  = InverseCell(CellOf(buffer, last.x, last.y))

\* A dark glyph has been drawn, fully on screen, on a framebuffer that is not
\* blank.
C10_Witness ==
    /\ last.op = "draw_char" /\ last.c = 65 /\ ~last.color
    /\ OnScreen(last.x, last.y) /\ OnScreen(last.x + 4, last.y + 7)
    /\ prev # ZeroBuffer

\* ----------------------------------------------------- strings and edges

\* The calls ssd1306_draw_char(x + 6k, y, s[k], color) for k = from, ...,
\* Len(str) - 1, one after the other (s[k] is str[k + 1]).
RECURSIVE CharByChar(_, _, _, _, _, _, _)
CharByChar(m, x, y, str, color, ovf, from) ==
    IF from >= Len(str) THEN m
    ELSE LET m2 == ssd1306_draw_char(m, x + 6 * from, y, str[from + 1], color, ovf)
         IN IF Computed(m2) THEN CharByChar(m2, x, y, str, color, ovf, from + 1)
            ELSE m2

\* C11: ssd1306_draw_string(x, y, s, color) leaves the framebuffer that the
\* calls ssd1306_draw_char(x + 6k, y, s[k], color), k = 0 .. n-1 in that
\* order, leave: the cursor moves on by exactly 6 for every character, also
\* for one outside 32..126 that draws nothing.
C11_StringIsCharByChar ==
    last.op = "draw_string" =>
        buffer = CharByChar(World(prev, << >>), last.x, last.y, last.str,
                            last.color, last.ovf, 0).buffer

\* "A", line feed, "B" drawn at (0, 0): the first column of B is at x = 12.
C11_Witness ==
    /\ last.op = "draw_string"
    /\ last.str = <<65, 10, 66>>
    /\ last.x = 0 /\ last.y = 0 /\ last.color
    /\ ~GetPixel(prev, 12, 0)
    /\ GetPixel(buffer, 12, 0)
    /\ ~GetPixel(buffer, 6, 0)

\* The characters of the last glyph call: the string of ssd1306_draw_string,
\* the one character of ssd1306_draw_char.
DrawnChars == IF last.op = "draw_char" THEN <<last.c>> ELSE last.str

\* C12: when a character drawn by ssd1306_draw_char or ssd1306_draw_string
\* lies partly or wholly outside the 128x64 area, exactly its pixels with
\* in-range coordinates are painted: every pixel of the screen that lies in
\* the cell of a supported character shows that character's glyph bit, and
\* every other pixel of the screen is as it was (nothing wraps to column 0,
\* to another row or to another page; a cell that starts at x >= 128 changes
\* nothing).
C12_ClippedNotWrapped ==
    last.op \in {"draw_char", "draw_string"} =>
        LET chars == DrawnChars
            x0 == last.x
            cols == {c \in 0 .. 127 :
                        /\ c >= x0
                        /\ (c - x0) \div 6 < Len(chars)
                        /\ (c - x0) % 6 <= 4
                        /\ chars[((c - x0) \div 6) + 1] >= 32
                        /\ chars[((c - x0) \div 6) + 1] <= 126}
        IN IF cols = {} THEN buffer = prev
           ELSE /\ \A k \in 0 .. 1023 :
                     (k % 128) \notin cols => buffer[k] = prev[k]
                /\ \A c \in cols : \A py \in 0 .. 63 :
                     GetPixel(buffer, c, py) =
                         IF py >= last.y /\ py - last.y <= 7
                         THEN (GlyphBit(chars[((c - x0) \div 6) + 1],
                                        (c - x0) % 6, py - last.y) = last.color)
                         ELSE GetPixel(prev, c, py)

\* "AB" drawn at (120, 16): B starts at x = 126 and is cut after two columns.
C12_Witness ==
    /\ last.op = "draw_string"
    /\ last.str = <<65, 66>>
    /\ last.x = 120 /\ last.y = 16 /\ last.color
    /\ GetPixel(buffer, 126, 16)
    /\ ~GetPixel(prev, 126, 16)
    /\ buffer[384] = prev[384]

\* -------------------------------------------------------------- protocol

\* What the last call put on the bus.
Emitted == SubSeq(bus, sent + 1, Len(bus))

IsCommand(t) == t.kind = "write" /\ Len(t.bytes) = 2 /\ t.bytes[1] = 0
IsData(t) == t.kind = "write" /\ Len(t.bytes) >= 1 /\ t.bytes[1] = 64

\* C13: one call of ssd1306_update emits, for page p = 0, 1, ..., 7 in
\* ascending order, the page-select command 0xB0 + p, the column-pointer
\* resets 0x00 and 0x10, then one data transaction: 8 command groups
\* interleaved with 8 data transactions and nothing else.
C13_UpdateSequence ==
    last.op = "update" =>
        /\ Len(Emitted) = 32
        /\ \A p \in 0 .. 7 :
             /\ IsCommand(Emitted[4 * p + 1]) /\ Emitted[4 * p + 1].bytes[2] = 176 + p
             /\ IsCommand(Emitted[4 * p + 2]) /\ Emitted[4 * p + 2].bytes[2] = 0
             /\ IsCommand(Emitted[4 * p + 3]) /\ Emitted[4 * p + 3].bytes[2] = 16
             /\ IsData(Emitted[4 * p + 4])
        /\ Cardinality({i \in 1 .. Len(Emitted) : IsCommand(Emitted[i])}) = 24
        /\ Cardinality({i \in 1 .. Len(Emitted) : IsData(Emitted[i])}) = 8

\* A refresh made after the bus has already been used.
C13_Witness ==
    /\ last.op = "update"
    /\ sent > 0
    /\ Len(bus) > sent

\* C14: the data transaction of page p carries 0x40 followed by exactly 128
\* bytes equal to buffer[128p .. 128p + 127] as the framebuffer stands at the
\* call, so the payloads of the 8 data transactions, one after the other, are
\* the whole 1024-byte framebuffer in index order.
C14_UpdatePayload ==
    last.op = "update" =>
        /\ \A p \in 0 .. 7 :
             /\ Len(Emitted[4 * p + 4].bytes) = 129
             /\ Emitted[4 * p + 4].bytes[1] = 64
             /\ \A c \in 0 .. 127 :
                    Emitted[4 * p + 4].bytes[c + 2] = prev[128 * p + c]
        /\ [k \in 0 .. 1023 |-> Emitted[4 * (k \div 128) + 4].bytes[(k % 128) + 2]]
             = buffer

\* A refresh of a framebuffer with something drawn below the first page.
C14_Witness ==
    /\ last.op = "update"
    /\ \E k \in 128 .. 1023 : buffer[k] # 0
    /\ \E i \in 1 .. Len(bus) : IsData(bus[i]) /\ \E c \in 2 .. 129 : bus[i].bytes[c] # 0

\* C15: every bus transaction the driver issues is addressed to 0x3C and is
\* either a command of exactly two bytes [0x00, opcode] or a data transaction
\* of 0x40 followed by at most 128 payload bytes.
C15_TransactionShape ==
    \A i \in 1 .. Len(bus) :
        bus[i].kind = "write" =>
            /\ bus[i].addr = 60
            /\ \/ (Len(bus[i].bytes) = 2 /\ bus[i].bytes[1] = 0)
               \/ (Len(bus[i].bytes) >= 1 /\ bus[i].bytes[1] = 64
                   /\ Len(bus[i].bytes) - 1 <= 128)

\* The bus has carried commands and a page of data.
C15_Witness ==
    /\ \E i \in 1 .. Len(bus) : IsCommand(bus[i]) /\ bus[i].bytes[2] = 175
    /\ \E i \in 1 .. Len(bus) : IsData(bus[i]) /\ Len(bus[i].bytes) = 129

\* The position, among what the last call emitted, of the first command
\* transaction that carries opcode op (0 when there is none).
FirstAt(op) ==
    LET at == {i \in 1 .. Len(Emitted) :
                  IsCommand(Emitted[i]) /\ Emitted[i].bytes[2] = op}
    IN IF at = {} THEN 0 ELSE CHOOSE i \in at : \A j \in at : i <= j

\* The opcodes ops are all emitted, each first one before the next one's.
InOrder(ops) ==
    /\ \A k \in 1 .. Len(ops) : FirstAt(ops[k]) > 0
    /\ \A k \in 1 .. Len(ops) - 1 : FirstAt(ops[k]) < FirstAt(ops[k + 1])

\* C16 (as stated): the commands of ssd1306_init appear in the order display
\* off (AE); addressing mode (20); page and column start addresses (B0, 10);
\* COM output scan direction (C8); segment remap (A1); contrast (81); normal
\* display (A6); multiplex ratio (A8); output follows RAM (A4); display
\* offset (D3); clock divide ratio (D5); pre-charge period (D9); COM pin
\* configuration (DA); VCOMH deselect level (DB); charge pump (8D); display
\* on (AF).
C16_ListedOrder ==
    last.op = "init" =>
        InOrder(<<174, 32, 176, 16, 200, 161, 129, 166, 168, 164,
                  211, 213, 217, 218, 219, 141, 175>>)

\* C16 (amended): the commands of ssd1306_init appear in the order display
\* off (AE); addressing mode (20); page start address (B0); COM output scan
\* direction (C8); column start address (10); display start line (40);
\* contrast (81); segment remap (A1); normal display (A6); multiplex ratio
\* (A8); output follows RAM (A4); display offset (D3); clock divide ratio
\* (D5); pre-charge period (D9); COM pin configuration (DA); VCOMH deselect
\* level (DB); charge pump (8D); display on (AF).
C16_InitOrder ==
    last.op = "init" =>
        InOrder(<<174, 32, 176, 200, 16, 64, 129, 161, 166, 168, 164,
                  211, 213, 217, 218, 219, 141, 175>>)

\* An initialisation has run: the scan direction went out before the column
\* start address and the contrast before the segment remap.
C16_Witness ==
    /\ last.op = "init"
    /\ FirstAt(200) > 0 /\ FirstAt(200) < FirstAt(16)
    /\ FirstAt(129) > 0 /\ FirstAt(129) < FirstAt(161)

\* The opcodes of a sequence of emitted transactions.
Opcodes(ts) == [i \in 1 .. Len(ts) |-> ts[i].bytes[2]]

\* C17: every call of ssd1306_init first waits the settling delay and then
\* emits the same 28 command transactions in the same order (AE first, AF
\* last), no data transaction, once, whatever the framebuffer holds and
\* whatever was sent before; the framebuffer is not modified.
C17_InitSequence ==
    last.op = "init" =>
        /\ Len(Emitted) = 29
        /\ Emitted[1].kind = "sleep" /\ Emitted[1].bytes = <<100>>
        /\ \A i \in 2 .. 29 : IsCommand(Emitted[i])
        /\ Opcodes(SubSeq(Emitted, 2, 29)) =
             << 174, 32, 0, 176, 200, 0, 16, 64, 129, 255, 161, 166, 168, 63,
                164, 211, 0, 213, 240, 217, 34, 218, 18, 219, 32, 141, 20, 175 >>
        /\ buffer = prev

\* An initialisation made over a framebuffer with something drawn in it.
C17_Witness ==
    /\ last.op = "init"
    /\ buffer # ZeroBuffer
    /\ Len(bus) = 29

\* --------------------------------------------------------- bus failures

\* The last call was an initialisation or a refresh during which the device
\* left a transaction unacknowledged.
FailedCall ==
    /\ last.op \in {"init", "update"}
    /\ \E i \in 1 .. Len(Emitted) : ~Emitted[i].ok

\* The number of entries a call of op puts in the bus log.
CallLength(op) == IF op = "init" THEN 29 ELSE 32

PagePointer(log, i) ==
    LET sel == {j \in 1 .. i - 1 :
                   /\ IsCommand(log[j]) /\ log[j].ok
                   /\ log[j].bytes[2] >= 176 /\ log[j].bytes[2] <= 183}
    IN IF sel = {} THEN 0
       ELSE log[CHOOSE j \in sel : \A h \in sel : h <= j].bytes[2] - 176

\* What page p of the panel holds after the transactions of log: the
\* payload of the latest acknowledged data transaction that arrived while
\* the page pointer selected p; << >> while the page has never been written.
PanelPage(log, p) ==
    LET ws == {i \in 1 .. Len(log) :
                  IsData(log[i]) /\ log[i].ok /\ PagePointer(log, i) = p}
    IN IF ws = {} THEN << >>
       ELSE Tail(log[CHOOSE i \in ws : \A h \in ws : h <= i].bytes)

\* Page p of the framebuffer buf, as a sequence.
PageSlice(buf, p) == [c \in 1 .. 128 |-> buf[128 * p + c - 1]]

\* C20: the driver never retries: within one call of ssd1306_init or
\* ssd1306_update a transaction that failed is not issued again and the call
\* issues as many transactions as a call without a failure; the framebuffer
\* is unchanged; and after ssd1306_update the panel holds the new content in
\* every page whose data transaction was acknowledged and its old content in
\* a page whose data transaction was not.
C20_NoRetry ==
    last.op \in {"init", "update"} =>
        /\ Len(Emitted) = CallLength(last.op)
        /\ \A i \in 1 .. Len(Emitted) - 1 :
               ~Emitted[i].ok => Emitted[i + 1].bytes # Emitted[i].bytes
        /\ buffer = prev
        /\ (last.op = "update" /\ FailedCall) =>
               \A p \in 0 .. 7 :
                   Emitted[4 * p + 1].ok =>
                       PanelPage(bus, p) =
                           IF Emitted[4 * p + 4].ok
                           THEN PageSlice(buffer, p)
                           ELSE PanelPage(SubSeq(bus, 1, sent), p)

\* A refresh of a framebuffer with something drawn in it, during which the
\* data of page 1 failed: the panel has the new page 0 and not the new page 1.
C20_Witness ==
    /\ last.op = "update"
    /\ buffer # ZeroBuffer
    /\ ~Emitted[8].ok
    /\ PanelPage(bus, 0) = PageSlice(buffer, 0)
    /\ PanelPage(bus, 2) = PageSlice(buffer, 2)
    /\ PanelPage(bus, 1) # PageSlice(buffer, 1)
    /\ buffer = prev

\* ----------------------------------------------------- application order

\* The bus log starts with what ssd1306_init emits.
InitEmitted ==
    /\ Len(bus) >= 29
    /\ bus[1].kind = "sleep"
    /\ \A i \in 2 .. 29 : IsCommand(bus[i])
    /\ bus[2].bytes[2] = 174
    /\ bus[29].bytes[2] = 175

\* C18: in the application ssd1306_init has completed before any other
\* driver operation runs: the first driver operation called is ssd1306_init,
\* and whenever ssd1306_clear, ssd1306_draw_string or ssd1306_update has been
\* called (from main or from state_controller) the command sequence of
\* ssd1306_init is already on the bus in full.
C18_InitFirst ==
    /\ calls # << >> => calls[1] = "init"
    /\ (\E i \in 1 .. Len(calls) : calls[i] # "init") => InitEmitted

\* state_controller has run and has drawn and refreshed the display.
C18_Witness ==
    /\ Len(calls) >= 8
    /\ calls[1] = "init"
    /\ calls[Len(calls)] = "update"
    /\ calls[Len(calls) - 1] = "draw_string"
    /\ buffer # ZeroBuffer

\* ------------------------------------------------------- repeated refresh

\* What a sequence of bus entries asks of the bus, whatever the device
\* answered.
Transactions(ts) ==
    [i \in 1 .. Len(ts) |-> [kind |-> ts[i].kind, addr |-> ts[i].addr,
                             bytes |-> ts[i].bytes]]

\* What the call before the last put on the bus, when that call was an
\* ssd1306_update (32 transactions, none emitted since).
EmittedBefore == SubSeq(bus, sent - 31, sent)

\* C21: ssd1306_update leaves the framebuffer as it was, whether or not the
\* device acknowledged, and needs nothing of the calls made before it: an
\* ssd1306_update that directly follows another puts the same transactions
\* on the bus as that one did.
C21_UpdateRepeatable ==
    last.op = "update" =>
        /\ buffer = prev
        /\ before =>
             /\ sent >= 32
             /\ Transactions(Emitted) = Transactions(EmittedBefore)

\* Two refreshes in a row, the first with a transaction the device left
\* unacknowledged, the second with none.
C21_Witness ==
    /\ last.op = "update"
    /\ before
    /\ \E i \in 1 .. 32 : ~EmittedBefore[i].ok
    /\ \A i \in 1 .. Len(Emitted) : Emitted[i].ok
    /\ Len(Emitted) = 32

\* ------------------------------------------------------------ arrow glyphs

\* The cell that row r of font5x7 (counted from 1) paints in color.
RowCell(r, color) ==
    [i \in 0 .. 4 |-> [j \in 0 .. 7 |->
        IF Bit(font5x7[r][i + 1], j) = 1 THEN color ELSE ~color]]

\* The last two rows of font5x7: "->" and "<-".
ArrowRows == {Len(font5x7) - 1, Len(font5x7)}

\* C22: no call of ssd1306_draw_char leaves one of the two arrow glyphs, the
\* last two rows of font5x7, in the cell it was asked to draw.
C22_ArrowsNeverRendered ==
    (last.op = "draw_char" /\ OnScreen(last.x, last.y)
                           /\ OnScreen(last.x + 4, last.y + 7))
        => \A r \in ArrowRows :
              CellOf(buffer, last.x, last.y) # RowCell(r, last.color)

\* ---------------------------------------------------------- the light cycle

\* The timer periods a state lasts, and the state that follows it.
Dwell(state) == IF state = "YELLOW" THEN 3 ELSE 10

Successor(state) ==
    IF state = "RED" THEN "GREEN" ELSE IF state = "GREEN" THEN "YELLOW" ELSE "RED"

\* A step of state_controller: it always changes current, and of the two
\* handlers that do it is the one that serves no interrupt.
Ticked == current' # current /\ presses' = presses

\* C23: the light starts in RED with 10 periods to go; while no button has
\* been pressed the remaining duration is one of 1 .. 10 periods in RED and
\* GREEN and of 1 .. 3 periods in YELLOW; a callback that finds more than one
\* period remaining takes one period off and leaves the state, and one that
\* finds the last period remaining moves RED to GREEN, GREEN to YELLOW or
\* YELLOW to RED with the full duration of the new state; and the light comes
\* back to each of the three states for ever.
C23_Cycle ==
    /\ current = [state |-> "RED", duration |-> 10000]
    /\ [](presses = 0 =>
            current.duration \in {1000 * k : k \in 1 .. Dwell(current.state)})
    /\ [][Ticked =>
            IF current.duration = 1000
            THEN current' = [state |-> Successor(current.state),
                             duration |-> 1000 * Dwell(Successor(current.state))]
            ELSE current' = [current EXCEPT !.duration = @ - 1000]]_vars
    /\ []<>(current.state = "RED")
    /\ []<>(current.state = "GREEN")
    /\ []<>(current.state = "YELLOW")

\* No button has been pressed and the light is back at the start of RED
\* after a callback, that is after YELLOW.
C23_Witness ==
    /\ presses = 0
    /\ FollowsCallback
    /\ current = [state |-> "RED", duration |-> 10000]
    /\ gpio = turn_on_red_signal

\* C24: a call of button_interrupt_handler with the falling-edge bit in
\* events leaves current = {GREEN, 1000} and button_A_pressed = true, for
\* either pin and whatever the state was; a call without that bit changes
\* nothing.
C24_HandlerEffect ==
    [][presses' # presses =>
          IF "GPIO_IRQ_EDGE_FALL" \in irq'.events
          THEN /\ current' = [state |-> "GREEN", duration |-> 1000]
               /\ button_A_pressed'
          ELSE UNCHANGED <<driverVars, pc, current, button_A_pressed,
                           button_B_pressed, gpio, buzzer, timerArmed,
                           irqEnabled, alarms, calls, semaforoVars,
                           stepVars>>]_vars

\* Two calls, the first without the falling-edge bit and the second for
\* button B with it, have left GREEN with one second to go.
C24_Witness ==
    /\ presses = 2
    /\ irq = [gpio |-> BUTTON_B, events |-> {"GPIO_IRQ_EDGE_FALL", "GPIO_IRQ_EDGE_RISE"}]
    /\ current = [state |-> "GREEN", duration |-> 1000]
    /\ button_A_pressed
    /\ gpio = turn_on_red_signal

\* C25: in part_000, after every press that the debounce has accepted an
\* alarm of callback_troca_estado is pending, so that the light goes on to
\* its next state.
C25_AlarmAfterPress ==
    acionamentos > 0 => \E al \in pool : al.callback = "troca_estado"

\* C26: once the repeating timer has been added, a step that draws into the
\* framebuffer, sends on the bus or calls a driver operation is a callback of
\* state_controller, and a call of button_interrupt_handler does none of
\* these; the handlers run one after the other, so no two driver operations
\* overlap.
C26_DriverOnlyInCallback ==
    [][/\ (timerArmed /\ (buffer' # buffer \/ bus' # bus \/ calls' # calls
                             \/ nops' # nops))
             => StateController
       /\ presses' # presses => UNCHANGED <<driverVars, calls>>]_vars

\* A callback has redrawn and sent the display after both buttons were
\* served.
C26_Witness ==
    /\ timerArmed
    /\ FollowsCallback
    /\ presses = 2
    /\ irq.gpio = BUTTON_B
    /\ last.op = "update"
    /\ Len(bus) - sent = 32
    /\ buffer # ZeroBuffer

\* The levels of the LED pins that stand for a state of the light.
SignalOf(state) ==
    IF state = "RED" THEN turn_on_red_signal
    ELSE IF state = "GREEN" THEN turn_on_green_signal
    ELSE turn_on_yellow_signal

\* C27: between the handlers, once setup has returned, the LED pins show
\* current.state: red alone for RED, green alone for GREEN, both for YELLOW.
C27_LedsShowState ==
    pc > 1 => gpio = SignalOf(current.state)

\* The text str stands in the framebuffer from the left edge of row y on.
Shows(buf, y, str) ==
    \A k \in 1 .. Len(str) :
        CellOf(buf, 6 * (k - 1), y) = RowCell((str[k] - 32) + 1, TRUE)

\* The latest callback has drawn a RED phase with the flag set.
ServedPhase ==
    /\ FollowsCallback
    /\ button_A_pressed
    /\ current.state = "RED"
    /\ current.duration < 10000

\* C28: a press is served once presses have stopped. From button_A_pressed
\* being set the light comes to a RED phase with the flag still set and counts
\* it down to 5 s and below; in such a phase the display shows "Walk!" and,
\* from 5 s on, the countdown; the flag is cleared only by the change from RED
\* to GREEN of a callback.
C28_PressServed ==
    /\ button_A_pressed ~> (ServedPhase /\ current.duration <= 5000)
    /\ [](ServedPhase =>
             /\ Shows(buffer, 16, StateLabel \o WalkText)
             /\ current.duration <= 5000 =>
                    Shows(buffer, 32, CountdownLabel
                                          \o DecimalDigits(current.duration \div 1000)
                                          \o CountdownUnit))
    /\ [][(button_A_pressed /\ ~button_A_pressed') =>
             /\ StateController
             /\ current.state = "RED"
             /\ current'.state = "GREEN"]_vars

\* A press of button B in YELLOW has been carried to the fifth second of the
\* next RED phase.
C28_Witness ==
    /\ ServedPhase
    /\ current.duration = 5000
    /\ irq.gpio = BUTTON_B
    /\ presses = 1
    /\ buzzer = 2048

\* The callback of this step calls beep(BUZZER, 5000).
BeepStarts ==
    /\ StateController
    /\ buzzer' = 2048
    /\ 5 \in alarms'

\* C29: a callback starts the buzzer exactly when it brings RED down to
\* 5000 ms with a button flag set. The buzzer sounds exactly while a stop
\* alarm is pending, there is never more than one such alarm and a beep
\* starts only when none is pending, so that each beep is stopped by its own
\* alarm, five timer periods (5000 ms) after its start, and by none earlier;
\* the alarm that is due fires before the next callback.
C29_BeepOncePerPhase ==
    /\ [][StateController =>
            (BeepStarts <=>
                /\ some_button_pressed(button_A_pressed, button_B_pressed)
                /\ current.state = "RED"
                /\ U32(current.duration - 1000) = 5000)]_vars
    /\ [][BeepStarts => (alarms = {} /\ buzzer = 0 /\ alarms' = {5})]_vars
    /\ [](Cardinality(alarms) <= 1)
    /\ []((buzzer = 2048) <=> (alarms # {}))
    /\ [][(buzzer = 2048 /\ buzzer' = 0) => (0 \in alarms /\ alarms' = {})]_vars
    /\ [][(StateController /\ alarms # {} /\ ~BeepStarts)
             => \E al \in alarms : alarms' = {al - 1}]_vars
    /\ (buzzer = 2048) ~> (buzzer = 0)

\* The beep of a RED phase with a press pending has been stopped by its
\* alarm, when that phase had ended.
C29_Witness ==
    /\ presses > 0
    /\ ~button_A_pressed
    /\ current = [state |-> "GREEN", duration |-> 10000]
    /\ buzzer = 0
    /\ alarms = {}

\* C30: a press of button B sets button_B_pressed.
C30_ButtonBRecorded ==
    [][(presses' # presses /\ irq'.gpio = BUTTON_B) => button_B_pressed']_vars

\* C31: when a callback of state_controller returns, the second line of the
\* display it has sent reads "Current State: " followed by the text of the
\* state that current.state and the flags then have.
C31_DisplayShowsState ==
    [][StateController =>
          Shows(buffer', 16, StateLabel \o get_state_string(current', button_A_pressed',
                                                            button_B_pressed'))]_vars

\* C32: a callback that sends "Walk!" or a "Countdown" line to the panel, or
\* that starts the buzzer, finds the red LED on and the green LED off; the
\* LEDs are written after update_display and beep, so their levels at that
\* moment are those the callback started with.
C32_RedWhenWalk ==
    [][(/\ StateController
        /\ \/ Shows(buffer', 16, StateLabel \o WalkText)
           \/ Shows(buffer', 32, CountdownLabel)
           \/ BeepStarts)
          => gpio = turn_on_red_signal]_vars

\* The callback that started the buzzer has sent "Walk!" and the countdown
\* of five seconds, with the red signal on.
C32_Witness ==
    /\ FollowsCallback
    /\ buzzer = 2048
    /\ alarms = {5}
    /\ Shows(buffer, 16, StateLabel \o WalkText)
    /\ Shows(buffer, 32, CountdownLabel \o <<53>> \o CountdownUnit)
    /\ gpio = turn_on_red_signal

\* The multiples of 1000 from lo * 1000 to hi * 1000.
Thousands(lo, hi) == {1000 * k : k \in lo .. hi}

\* C33: current.duration never wraps, with the button handler running between
\* any two statements of state_controller and change_state. It is always a
\* multiple of 1000 up to 10000 and, when a callback starts, at least 1000;
\* current.duration -= 1000 stores the loaded value less 1000, in 0..9000;
\* the test of is_time_to_change succeeds exactly when the duration is 0.
C33_DurationInRange ==
    /\ [](current.duration \in Thousands(0, 10))
    /\ [](sc = Idle => current.duration \in Thousands(1, 10))
    /\ [][(sc.at = "store" /\ sc' # sc) =>
             /\ reg >= 1000
             /\ current'.duration = reg - 1000
             /\ current'.duration \in Thousands(0, 9)]_vars
    /\ [][(sc.at = "test" /\ sc' # sc) =>
             (sc'.at = "switch" <=> current.duration = 0)]_vars

\* A press has come inside the RED case of change_state, after the flags
\* were cleared and before the duration was assigned: the callback has
\* returned with GREEN, 10000 and the flag set.
C33_Witness ==
    /\ sc = Idle
    /\ button_A_pressed
    /\ current = [state |-> "GREEN", duration |-> 10000]
    /\ gpio = turn_on_green_signal

\* C34: every read of font5x7 made by a driver call is inside the table.
\* ssd1306_draw_char, for a character it accepts, reads columns 0..4 of row
\* c - 32, a row from 0 to 94, and the table has more rows than that.
C34_FontReadsInTable ==
    /\ \A r \in fontRead : r[1] \in FontRows /\ r[2] \in 0 .. 4
    /\ (last.op = "draw_char" /\ CharSupported(last.c)) =>
          /\ fontRead = {<<last.c - 32, i>> : i \in 0 .. 4}
          /\ last.c - 32 \in 0 .. 94
          /\ 94 < Len(font5x7)

\* The last character accepted, 126, has been drawn from row 94.
C34_Witness ==
    /\ last.op = "draw_char"
    /\ last.c = 126
    /\ fontRead = {<<94, i>> : i \in 0 .. 4}

====
